---- MODULE Spec2Model ----
(***************************************************************************)
(* Request store and matching state machine of the AirDlivers bot           *)
(* (src/unnamed/part_002).  The store holds sender and traveler request     *)
(* documents; every bot handler is an async function whose awaited store    *)
(* calls are the points where other handlers may run (bot.processUpdate     *)
(* emits the event and returns; nothing serialises handlers).  Each         *)
(* handler is therefore a sequence of atomic steps, one per store call.     *)
(* Handlers in flight are kept in a bag, so two deliveries of the same      *)
(* event are two elements.                                                   *)
(*                                                                           *)
(* Outbound chat messages are not part of the state, except the text of     *)
(* the last callback answer (answer) and the number of match-finalized  *)
(* notices per pair (finalized).  Store calls are taken not to fail.        *)
(***************************************************************************)
EXTENDS Integers, FiniteSets, Sequences, Bags, TLC

\* ------------------------------------------------------------------ bounds
NumSenders == 2
NumTravelers == 1
NumUsers == 2
MaxHandlers == 2
MaxRequests == 2
MaxNotices == 2
MinRequests == 1
NumModerators == 1
MaxNameLen == 3
MaxTextLen == 4
ShortTextLen == 2
MaxClock == 1
LightWeight == 6
HeavyWeight == 9

\* ------------------------------------------------------------------ values
\* JS null (a field inserted as null) and a field removed by $unset.
Null == 0
Absent == -1

Senders == 1..NumSenders
Travelers == (NumSenders + 1)..(NumSenders + NumTravelers)
Ids == Senders \cup Travelers
Users == 1..NumUsers
Roles == {"sender", "traveler"}
\* Package weight / available weight in kg, as entered in the submission.
Weights == {LightWeight, HeavyWeight}

RoleOf(id) == IF id \in Senders THEN "sender" ELSE "traveler"
OtherRole(role) == IF role = "sender" THEN "traveler" ELSE "sender"
ColIds(role) == IF role = "sender" THEN Senders ELSE Travelers

\* A document that findOne did not find (JS null result).
NoDoc ==
  [exists |-> FALSE, userId |-> 0, status |-> "Pending", matchLocked |-> FALSE,
   pendingMatchWith |-> Null, matchedWith |-> Null, weight |-> 0,
   suspended |-> FALSE, deliveryCompleted |-> FALSE]

\* The document handleFinalSenderSubmit / handleFinalTravelerSubmit inserts.
NewDoc(user, w) ==
  [exists |-> TRUE, userId |-> user, status |-> "Pending", matchLocked |-> FALSE,
   pendingMatchWith |-> Null, matchedWith |-> Null, weight |-> w,
   suspended |-> FALSE, deliveryCompleted |-> FALSE]

\* The fields of myDoc that handleUserMatchConfirm reads after its second
\* findOne (userId, status, matchLocked, pendingMatchWith).
Seen(doc) ==
  [exists |-> doc.exists, userId |-> doc.userId, status |-> doc.status,
   matchLocked |-> doc.matchLocked, pendingMatchWith |-> doc.pendingMatchWith]
NoSeen == Seen(NoDoc)

\* JS truthiness of a reference field: null and a missing field are falsy.
Truthy(v) == v # Null /\ v # Absent

VARIABLES
  reqs,        \* the two collections: request id -> document
  inflight,    \* bag of the handlers that are suspended at a store call
  answer,      \* callback answer sent by the step just taken, or "none"
  finalized,   \* <<sender, traveler>> -> number of "Match finalized" notices
  confirmedBy, \* <<my, other>>: my's owner confirmed other and the handler wrote
  staleFor,    \* <<x, y>>: x was left waiting for y when y locked with another
  cards,       \* match cards sent by the step just taken: <<to, about>>
  received,    \* every match card sent so far
  sessions,    \* userSessions: chat -> the submission flow in progress
  adminAuth,   \* adminAuth: actor -> login state and awaitingCustomReasonFor
  recording,   \* what is kept of the outbound messages (they never feed
               \* back): "off" nothing, "steps" answer and cards, "history"
               \* received as well
  probe,       \* a call of a helper function: its arguments and its result
  clock,       \* the second moment() reads
  inserted     \* the documents stored by the insertOne calls of
               \* handleFinalSenderSubmit / handleFinalTravelerSubmit, in order

vars == <<reqs, inflight, answer, finalized, confirmedBy, staleFor, cards,
          received, sessions, adminAuth, recording, probe, clock, inserted>>

Pairs == Senders \X Travelers
PairOf(a, b) == IF a \in Senders THEN <<a, b>> ELSE <<b, a>>

\* collection.findOne({ requestId }) on the collection of `role`.
FindOne(role, id) ==
  IF id \in ColIds(role) /\ reqs[id].exists THEN reqs[id] ELSE NoDoc

\* sendersCol.findOne({ requestId }) || travelersCol.findOne({ requestId })
FindAny(id) == IF reqs[id].exists THEN reqs[id] ELSE NoDoc

\* ------------------------------------------------------------------ handlers
\* A handler in flight: its kind, the store call it is suspended at, its
\* arguments and what it has read so far.
Handler(kind, pc, my, other, actor, myDoc) ==
  [kind |-> kind, pc |-> pc, my |-> my, other |-> other, actor |-> actor,
   myDoc |-> myDoc]
Confirming == {h \in BagToSet(inflight) : h.kind = "confirm"}

Running == BagToSet(inflight)
CanSpawn == BagCardinality(inflight) < MaxHandlers
Spawn(h) == inflight (+) SetToBag({h})
Finish(h) == inflight (-) SetToBag({h})
Move(h, g) == (inflight (-) SetToBag({h})) (+) SetToBag({g})

\* The actors of moderation events: the super admin and the accounts that
\* may log in with the PIN.
SuperAdmin == 0
Actors == {SuperAdmin} \cup (1..NumModerators)

\* adminAuth[fromId] undefined or {}.
NoAuth == [login |-> "none", reasonFor |-> Null]

\* userSessions[chatId] = null
NoSession == [type |-> "none", step |-> "none"]

\* No helper function is being called on its own.
NoProbe == [fn |-> "none"]

\* The empty store, no handler running, no flow started.
InitStore(rec) ==
  /\ reqs = [id \in Ids |-> NoDoc]
  /\ inflight = EmptyBag
  /\ answer = "none"
  /\ finalized = [p \in Pairs |-> 0]
  /\ confirmedBy = {}
  /\ staleFor = {}
  /\ cards = {}
  /\ received = {}
  /\ sessions = [u \in Users |-> NoSession]
  /\ adminAuth = [a \in Actors |-> NoAuth]
  /\ recording = rec
  /\ clock = 0
  /\ inserted = <<>>

InitWith(rec) == InitStore(rec) /\ probe = NoProbe

Init == InitWith("steps")
Quiet == InitWith("off")
WithHistory == InitWith("history")

\* What a step leaves in answer / cards.
Say(text) == IF recording # "off" THEN text ELSE "none"
Sent(set) == IF recording # "off" THEN set ELSE {}

\* ------------------------------------------------------------------ history
LockedTogether(x, y) ==
  /\ reqs[x].matchLocked /\ reqs[x].matchedWith = y
  /\ reqs[y].matchLocked /\ reqs[y].matchedWith = x

\* x holds pendingMatchWith = y while y is locked with another request, and
\* y's owner has not confirmed x (no write and no handler in flight).
StaleNow ==
  {p \in Ids \X Ids :
     /\ reqs[p[1]].pendingMatchWith = p[2]
     /\ reqs[p[2]].matchLocked
     /\ Truthy(reqs[p[2]].matchedWith) /\ reqs[p[2]].matchedWith # p[1]
     /\ <<p[2], p[1]>> \notin confirmedBy
     /\ \A h \in Confirming : ~(h.my = p[2] /\ h.other = p[1])}

\* The history variable staleFor keeps every pair that was ever in StaleNow,
\* received every card sent.
TrackBase ==
  /\ staleFor' = staleFor \cup StaleNow'
  /\ received' = IF recording = "history" THEN received \cup cards' ELSE received
  /\ recording' = recording
  /\ probe' = probe
  /\ clock' = clock
  /\ inserted' = inserted

\* The same for a step of a handler that does not touch adminAuth.
TrackStore == TrackBase /\ adminAuth' = adminAuth

\* The same for a step of a handler that does not touch userSessions.
Track == TrackStore /\ sessions' = sessions

\* A step that sends no match card.
NoCards == cards' = {}

\* ------------------------------------------------------------------ matching
WeightTolerance == 2

\* isWeightCompatible: the two weights differ by at most 2 kg.
IsWeightCompatible(senderWeight, travelerWeight) ==
  (IF senderWeight >= travelerWeight THEN senderWeight - travelerWeight
   ELSE travelerWeight - senderWeight) <= WeightTolerance

\* Weights are JS numbers (IEEE 754 doubles): Number() / parseFloat of the
\* decimal text k / 100 is the double nearest to it.  Doubles are not
\* representable in the model's integers, so a weight of k hundredths is
\* the pair of k and the rounding error of its double, counted in units of
\* 2^-59 / 100 kg (every double from 0.01 to 10 is a multiple of 2^-59).
MaxWeight == 10
Hundredths == 0..(MaxWeight * 100)

\* floor(log2(k / 100)) for 1 <= k <= 1000: the binary exponent of the double.
BinaryExponent(k) ==
  IF k >= 100 THEN CHOOSE e \in 0..3 : 100 * 2^e <= k /\ k < 100 * 2^(e + 1)
  ELSE 0 - (CHOOSE n \in 1..7 : k * 2^n >= 100 /\ k * 2^(n - 1) < 100)

\* 2^n modulo 100.
RECURSIVE Pow2Mod100(_)
Pow2Mod100(n) == IF n = 0 THEN 1 ELSE (2 * Pow2Mod100(n - 1)) % 100

\* The double nearest to k / 100 minus k / 100.  With e the binary exponent,
\* the last place of the 53-bit significand is 2^(e - 52); k / 100 lies
\* r / 100 of a last place above a multiple of it, r = k * 2^(52 - e) mod 100,
\* and is rounded to the nearer multiple (r = 50 would need 100 to divide
\* k * 2^(53 - e), and then r = 0).
RoundingError(k) ==
  IF k = 0 THEN 0
  ELSE LET e == BinaryExponent(k)
           r == (k * Pow2Mod100(52 - e)) % 100
           lastPlace == 2^(e + 7)
       IN IF r < 50 THEN 0 - r * lastPlace ELSE (100 - r) * lastPlace

\* isWeightCompatible on weights of senderWeight and travelerWeight
\* hundredths: Math.abs(Number(senderWeight) - Number(travelerWeight)) <= 2.
\* The exact difference of the two doubles is diff hundredths and error
\* units; the subtraction rounds it to the nearest double, which is at most
\* 2 iff the exact difference is at most 2 + 2^-52 (half a last place above
\* 2; the tie goes to 2, whose significand is even), that is 100 * 2^7 units
\* above 2.
IsWeightCompatibleNumber(senderWeight, travelerWeight) ==
  LET sign == IF senderWeight >= travelerWeight THEN 1 ELSE 0 - 1
      diff == sign * (senderWeight - travelerWeight)
      error == sign * (RoundingError(senderWeight) - RoundingError(travelerWeight))
  IN \/ diff < WeightTolerance * 100
     \/ diff = WeightTolerance * 100 /\ error <= 100 * 2^7

\* An airport name is a sequence of pieces of text: a space, a hyphen or a
\* run of letters.  Two runs of letters side by side read as one word.
NameSpace == " "
NameBreaks == {" ", "-"}
NamePieces == {" ", "-", "Delhi", "DELHI", "AIRPORT", "Intl", "INTERNATIONAL"}
RemovedWords == {"AIRPORT", "INTL", "INTERNATIONAL"}
NamesUpTo(n) == UNION {[1..k -> NamePieces] : k \in 0..n}

\* .toUpperCase() of a piece.
ToUpperCase(piece) ==
  IF piece = "Delhi" THEN "DELHI" ELSE IF piece = "Intl" THEN "INTL" ELSE piece

\* .trim()
RECURSIVE TrimStart(_)
TrimStart(name) ==
  IF name # <<>> /\ Head(name) = NameSpace THEN TrimStart(Tail(name)) ELSE name

RECURSIVE TrimEnd(_)
TrimEnd(name) ==
  IF name # <<>> /\ name[Len(name)] = NameSpace
  THEN TrimEnd(SubSeq(name, 1, Len(name) - 1)) ELSE name

\* .replace(/\s+/g, ' ')
RECURSIVE CollapseSpaces(_)
CollapseSpaces(name) ==
  IF Len(name) < 2 THEN name
  ELSE IF name[1] = NameSpace /\ name[2] = NameSpace THEN CollapseSpaces(Tail(name))
  ELSE <<Head(name)>> \o CollapseSpaces(Tail(name))

\* The number of spaces name starts with.
RECURSIVE LeadingSpaces(_)
LeadingSpaces(name) ==
  IF name # <<>> /\ Head(name) = NameSpace THEN 1 + LeadingSpaces(Tail(name)) ELSE 0

\* \b after the piece at position i: the end of the name or a break.
WordEndsAt(name, i) == i = Len(name) \/ name[i + 1] \in NameBreaks

\* .replace(/\s+WORD\b/g, ''): scanning from the left, every run of spaces
\* followed by WORD ending at a word boundary is removed with the word.
RECURSIVE RemoveSpacedWord(_, _)
RemoveSpacedWord(name, word) ==
  IF name = <<>> THEN <<>>
  ELSE LET n == LeadingSpaces(name)
       IN IF n > 0 /\ n < Len(name) /\ name[n + 1] = word /\ WordEndsAt(name, n + 1)
          THEN RemoveSpacedWord(SubSeq(name, n + 2, Len(name)), word)
          ELSE <<Head(name)>> \o RemoveSpacedWord(Tail(name), word)

\* normalizeAirportName
NormalizeAirportName(name) ==
  LET upper == [i \in 1..Len(TrimEnd(TrimStart(name))) |->
                  ToUpperCase(TrimEnd(TrimStart(name))[i])]
  IN RemoveSpacedWord(
       RemoveSpacedWord(RemoveSpacedWord(CollapseSpaces(upper), "AIRPORT"), "INTL"),
       "INTERNATIONAL")

\* airportsMatch: na && nb && na === nb
AirportsMatch(a, b) ==
  /\ NormalizeAirportName(a) # <<>>
  /\ NormalizeAirportName(b) # <<>>
  /\ NormalizeAirportName(a) = NormalizeAirportName(b)

\* A date 'DD-MM-YYYY' is <<day, month, year>>, a date and time
\* 'DD-MM-YYYY HH:mm' is <<day, month, year, hour, minute>>.
IsLeapYear(y) == (y % 4 = 0 /\ y % 100 # 0) \/ y % 400 = 0

DaysInMonth(m, y) ==
  IF m = 2 THEN (IF IsLeapYear(y) THEN 29 ELSE 28)
  ELSE IF m \in {4, 6, 9, 11} THEN 30 ELSE 31

\* moment(str, format, true).isValid(): the fields are in range.
IsValidDate(d) == d[2] \in 1..12 /\ d[1] >= 1 /\ d[1] <= DaysInMonth(d[2], d[3])
IsValidDateTime(t) == IsValidDate(t) /\ t[4] \in 0..23 /\ t[5] \in 0..59

\* Leap days from 1970 up to, not including, year y.
LeapDaysBefore(y) ==
  ((y - 1) \div 4 - (y - 1) \div 100 + (y - 1) \div 400)
    - (1969 \div 4 - 1969 \div 100 + 1969 \div 400)

RECURSIVE DaysBeforeMonth(_, _)
DaysBeforeMonth(m, y) ==
  IF m = 1 THEN 0 ELSE DaysBeforeMonth(m - 1, y) + DaysInMonth(m - 1, y)

\* The moment's value: minutes of local time since 01-01-1970 00:00.
Moment(d, hour, minute) ==
  ((365 * (d[3] - 1970) + LeapDaysBefore(d[3]) + DaysBeforeMonth(d[2], d[3])
      + (d[1] - 1)) * 1440) + hour * 60 + minute

\* .startOf('day')
StartOfDay(moment) == moment - (moment % 1440)

\* a.diff(b, 'days'): the difference in days, truncated towards zero.
DiffDays(a, b) ==
  IF a >= b THEN (a - b) \div 1440 ELSE 0 - ((b - a) \div 1440)

Abs(n) == IF n >= 0 THEN n ELSE 0 - n

\* areDatesClose with the day difference taken between the moments as
\* parsed.
AreDatesClose_NoStartOfDay(sendDate, departureTime) ==
  /\ IsValidDate(sendDate) /\ IsValidDateTime(departureTime)
  /\ Abs(DiffDays(Moment(departureTime, departureTime[4], departureTime[5]),
                  Moment(sendDate, 0, 0))) <= 1

\* areDatesClose: both strings parse strictly and their days are at most
\* one day apart.
AreDatesClose(sendDate, departureTime) ==
  /\ IsValidDate(sendDate) /\ IsValidDateTime(departureTime)
  /\ Abs(DiffDays(StartOfDay(Moment(departureTime, departureTime[4], departureTime[5])),
                  StartOfDay(Moment(sendDate, 0, 0)))) <= 1

\* isSenderTravelerCompatible on snapshots that carry every field it reads:
\* the route (airport names, '' when missing), the weights in hundredths,
\* the dates (<<>> when missing) and matchLocked.
IsSenderTravelerCompatibleOn(senderSnap, travelerSnap) ==
  /\ senderSnap.pickup # <<>> /\ senderSnap.destination # <<>>
  /\ senderSnap.sendDate # <<>>
  /\ travelerSnap.departure # <<>> /\ travelerSnap.destination # <<>>
  /\ travelerSnap.departureTime # <<>>
  /\ AirportsMatch(senderSnap.pickup, travelerSnap.departure)
  /\ AirportsMatch(senderSnap.destination, travelerSnap.destination)
  /\ IsWeightCompatibleNumber(senderSnap.weight, travelerSnap.availableWeight)
  /\ AreDatesClose(senderSnap.sendDate, travelerSnap.departureTime)
  /\ ~(senderSnap.matchLocked \/ travelerSnap.matchLocked)

\* isSenderTravelerCompatible on the snapshots of two documents.  Every
\* request of the model is on the same route with dates one day apart at
\* most, so the airport and date tests pass; the weight and matchLocked
\* tests decide.
IsSenderTravelerCompatible(senderSnap, travelerSnap) ==
  /\ IsWeightCompatible(senderSnap.weight, travelerSnap.weight)
  /\ ~(senderSnap.matchLocked \/ travelerSnap.matchLocked)

\* sendMatchCardToSender / sendMatchCardToTraveler: the card <<to, about>>
\* goes to the owner of `to` when the two documents passed are compatible.
SendMatchCard(to, toDoc, about, aboutDoc) ==
  IF (IF to \in Senders THEN IsSenderTravelerCompatible(toDoc, aboutDoc)
      ELSE IsSenderTravelerCompatible(aboutDoc, toDoc))
  THEN {<<to, about>>} ELSE {}

\* A document as a handler holds it after its checks found it unlocked.
ReadUnlocked(id) == [reqs[id] EXCEPT !.matchLocked = FALSE]

\* ------------------------------------------------------------------ submit
\* Request ids are a role prefix and the clock's second: ids of one role are
\* handed out in increasing order.
NextId(role) ==
  IF \E id \in ColIds(role) : ~reqs[id].exists
  THEN CHOOSE id \in ColIds(role) :
         /\ ~reqs[id].exists
         /\ \A j \in ColIds(role) : j < id => reqs[j].exists
  ELSE Null

\* Users are interchangeable, so a user who owns no request yet is taken to be
\* the lowest-numbered such user.
Owners == {reqs[id].userId : id \in {i \in Ids : reqs[i].exists}}
FreshOrKnown(user) == \A u \in Users : u < user => u \in Owners

\* Confirm & Submit: the insertOne of the Pending document, owner = the chat,
\* with the weight entered in the flow.  `limit` bounds the number of
\* documents in the store.
SubmitWith(role, user, limit, w) ==
  /\ NextId(role) # Null
  /\ Cardinality({i \in Ids : reqs[i].exists}) < limit
  /\ FreshOrKnown(user)
  /\ reqs' = [reqs EXCEPT ![NextId(role)] = NewDoc(user, w)]
  /\ answer' = "none"
  /\ UNCHANGED <<inflight, finalized, confirmedBy>>
  /\ NoCards
  /\ Track

\* A submission whose weight is LightWeight.
Submit(role, user, limit) == SubmitWith(role, user, limit, LightWeight)

\* ------------------------------------------------------------------ confirm
\* handleUserMatchConfirm's checks with the counterpart's pendingMatchWith
\* never consulted: every accepted confirmation takes the lock branch.
ConfirmCheck_LockOnFirst(myDoc, otherDoc, my, other, actor) ==
  IF ~myDoc.exists \/ ~otherDoc.exists THEN "Match not found anymore."
  ELSE IF myDoc.userId # actor THEN "This match card is not for you."
  ELSE IF myDoc.status # "Approved" \/ otherDoc.status # "Approved"
    THEN "One of the requests is not approved anymore."
  ELSE IF myDoc.matchLocked \/ otherDoc.matchLocked
    THEN "Already matched with someone else."
  ELSE IF Truthy(myDoc.pendingMatchWith) /\ myDoc.pendingMatchWith # other
    THEN "You already confirmed another match."
  ELSE "lock"

\* The checks without the matchLocked test.
ConfirmCheck_NoLockedCheck(myDoc, otherDoc, my, other, actor) ==
  IF ~myDoc.exists \/ ~otherDoc.exists THEN "Match not found anymore."
  ELSE IF myDoc.userId # actor THEN "This match card is not for you."
  ELSE IF myDoc.status # "Approved" \/ otherDoc.status # "Approved"
    THEN "One of the requests is not approved anymore."
  ELSE IF Truthy(myDoc.pendingMatchWith) /\ myDoc.pendingMatchWith # other
    THEN "You already confirmed another match."
  ELSE IF otherDoc.pendingMatchWith = my THEN "lock"
  ELSE "first"

\* The checks without the owner test.
ConfirmCheck_NoOwnerCheck(myDoc, otherDoc, my, other, actor) ==
  IF ~myDoc.exists \/ ~otherDoc.exists THEN "Match not found anymore."
  ELSE IF myDoc.status # "Approved" \/ otherDoc.status # "Approved"
    THEN "One of the requests is not approved anymore."
  ELSE IF myDoc.matchLocked \/ otherDoc.matchLocked
    THEN "Already matched with someone else."
  ELSE IF Truthy(myDoc.pendingMatchWith) /\ myDoc.pendingMatchWith # other
    THEN "You already confirmed another match."
  ELSE IF otherDoc.pendingMatchWith = my THEN "lock"
  ELSE "first"

\* The checks of handleUserMatchConfirm in the code's order: the notice it
\* answers with, or the branch it takes ("lock" for the second confirmer,
\* "first" for the first).
ConfirmCheck(myDoc, otherDoc, my, other, actor) ==
  IF ~myDoc.exists \/ ~otherDoc.exists THEN "Match not found anymore."
  ELSE IF myDoc.userId # actor THEN "This match card is not for you."
  ELSE IF myDoc.status # "Approved" \/ otherDoc.status # "Approved"
    THEN "One of the requests is not approved anymore."
  ELSE IF myDoc.matchLocked \/ otherDoc.matchLocked
    THEN "Already matched with someone else."
  ELSE IF Truthy(myDoc.pendingMatchWith) /\ myDoc.pendingMatchWith # other
    THEN "You already confirmed another match."
  ELSE IF otherDoc.pendingMatchWith = my THEN "lock"
  ELSE "first"

\* updateOne({ requestId: id }, { $set: { matchLocked: true, matchedWith: w },
\* $unset: { pendingMatchWith: '' } }).  pendingMatchWith is only ever read
\* for truthiness, strict equality with an id, or by a null-or-missing
\* filter, so the removed field is kept as Null.
LockWrite(doc, w) ==
  [doc EXCEPT !.matchLocked = TRUE, !.matchedWith = w, !.pendingMatchWith = Null]

\* updateOne({ requestId: id }, { $set: { pendingMatchWith: w } })
PendingWrite(doc, w) == [doc EXCEPT !.pendingMatchWith = w]

\* The ghost confirmedBy: a write of handler h counts as a confirmation of
\* h.other by h.my's owner when the presser is that owner.
Confirmed(h) ==
  IF reqs[h.my].exists /\ reqs[h.my].userId = h.actor
  THEN confirmedBy \cup {<<h.my, h.other>>}
  ELSE confirmedBy

\* A user presses "Confirm" on a match card: the token names the role's own
\* request and the counterpart; the handler starts and reads myDoc.
ConfirmStart(role, my, other, actor) ==
  /\ CanSpawn
  /\ my \in ColIds(role) /\ other \in ColIds(OtherRole(role))
  /\ inflight' = Spawn(Handler("confirm", "readOther", my, other, actor,
                               Seen(FindOne(role, my))))
  /\ answer' = "none"
  /\ UNCHANGED <<reqs, finalized, confirmedBy>>
  /\ NoCards
  /\ Track

\* The second findOne, then every check up to the branch.
ConfirmReadOther(h) ==
  /\ h \in Confirming /\ h.pc = "readOther"
  /\ LET otherDoc == FindOne(OtherRole(RoleOf(h.my)), h.other)
         res == ConfirmCheck(h.myDoc, otherDoc, h.my, h.other, h.actor)
     IN IF res = "lock"
        THEN /\ inflight' = Move(h, [h EXCEPT !.pc = "lockMy", !.myDoc = NoSeen])
             /\ answer' = "none"
        ELSE IF res = "first"
        THEN /\ inflight' = Move(h, [h EXCEPT !.pc = "setPending", !.myDoc = NoSeen])
             /\ answer' = "none"
        ELSE /\ inflight' = Finish(h)
             /\ answer' = Say(res)
  /\ UNCHANGED <<reqs, finalized, confirmedBy>>
  /\ NoCards
  /\ Track

\* Second confirmer, first write: my own document.
ConfirmLockMy(h) ==
  /\ h \in Confirming /\ h.pc = "lockMy"
  /\ reqs' = [reqs EXCEPT ![h.my] = LockWrite(@, h.other)]
  /\ confirmedBy' = Confirmed(h)
  /\ inflight' = Move(h, [h EXCEPT !.pc = "lockOther"])
  /\ answer' = "none"
  /\ UNCHANGED finalized
  /\ NoCards
  /\ Track

\* Second confirmer, second write: the counterpart's document; then the
\* "Match Confirmed" messages, the admin group's "Match finalized" notice
\* and the callback answer.
ConfirmLockOther(h) ==
  /\ h \in Confirming /\ h.pc = "lockOther"
  /\ reqs' = [reqs EXCEPT ![h.other] = LockWrite(@, h.my)]
  /\ finalized' = [finalized EXCEPT ![PairOf(h.my, h.other)] =
                     IF @ < MaxNotices THEN @ + 1 ELSE @]
  /\ answer' = Say("Match confirmed")
  /\ inflight' = Finish(h)
  /\ UNCHANGED confirmedBy
  /\ NoCards
  /\ Track

\* First confirmer: the pendingMatchWith write, the callback answer and the
\* card forwarded to the counterpart, built from the two documents as the
\* handler read them (both unlocked then).
ConfirmSetPending(h) ==
  /\ h \in Confirming /\ h.pc = "setPending"
  /\ reqs' = [reqs EXCEPT ![h.my] = PendingWrite(@, h.other)]
  /\ confirmedBy' = Confirmed(h)
  /\ answer' = Say("Confirmation sent. Waiting for other user.")
  /\ cards' = Sent(SendMatchCard(h.other, ReadUnlocked(h.other), h.my, ReadUnlocked(h.my)))
  /\ inflight' = Finish(h)
  /\ UNCHANGED finalized
  /\ Track

\* ------------------------------------------------------------------ moderation
\* Handlers of the other kinds in flight.
Of(kind) == {h \in BagToSet(inflight) : h.kind = kind}

\* processApprove's checks without the tests for the final states.
ApproveCheck_NoFinalTest(found) ==
  IF ~found.exists THEN "Request not found." ELSE "write"

\* processApprove after its findOne: the early answer, or "write".
ApproveCheck(found) ==
  IF ~found.exists THEN "Request not found."
  ELSE IF found.status = "Approved" THEN "Already approved."
  ELSE IF found.status = "Rejected" THEN "Request was already rejected."
  ELSE "write"

\* processReject after its findOne.
RejectCheck(found) ==
  IF ~found.exists THEN "Request not found."
  ELSE IF found.status = "Rejected" THEN "Already rejected."
  ELSE IF found.status = "Approved" THEN "Already approved; cannot reject."
  ELSE "write"

\* processRequestVisa after travelersCol.findOne.
VisaCheck(found) ==
  IF ~found.exists THEN "Traveler request not found."
  ELSE IF found.status = "VisaRequested" THEN "Visa already requested."
  ELSE IF found.status = "Approved" THEN "Already approved."
  ELSE IF found.status = "Rejected" THEN "Already rejected."
  ELSE "write"

\* $set status Rejected, $unset pendingMatchWith, matchedWith, matchLocked.
\* matchLocked is only ever read for truthiness or by { $ne: true } /
\* { matchLocked: true } filters, so the removed field is kept as FALSE.
RejectWrite(doc) ==
  [doc EXCEPT !.status = "Rejected", !.pendingMatchWith = Null,
              !.matchedWith = Absent, !.matchLocked = FALSE]

\* A moderation button (approve_, reason_, requestvisa_) pressed by a
\* logged-in admin: the handler reads the request and either answers or
\* goes on to its updateOne.
ModStart(kind, id) ==
  /\ CanSpawn
  /\ kind \in {"approve", "reject", "visa"}
  /\ LET found == IF kind = "visa" THEN FindOne("traveler", id) ELSE FindAny(id)
         res == IF kind = "approve" THEN ApproveCheck(found)
                ELSE IF kind = "reject" THEN RejectCheck(found)
                ELSE VisaCheck(found)
     IN IF res = "write"
        THEN /\ inflight' = Spawn(Handler(kind, "write", id, Null, Null, NoSeen))
             /\ answer' = "none"
        ELSE /\ answer' = Say(res)
             /\ UNCHANGED inflight
  /\ UNCHANGED <<reqs, finalized, confirmedBy>>
  /\ NoCards
  /\ Track

\* processApprove: the status write, the notices to the owner and the admin
\* group and the callback answer; triggerMatchingForRequest follows.
ApproveWrite(h) ==
  /\ h \in Of("approve") /\ h.pc = "write"
  /\ reqs' = [reqs EXCEPT ![h.my].status = "Approved"]
  /\ answer' = Say("Approved.")
  /\ inflight' = Move(h, [h EXCEPT !.pc = "matchRead"])
  /\ UNCHANGED <<finalized, confirmedBy>>
  /\ NoCards
  /\ Track

\* triggerMatchingForRequest, first store call: the request is read again;
\* the scan goes on only if it is there, unlocked, without pendingMatchWith
\* and Approved.
MatchRead(h) ==
  /\ h \in Of("approve") /\ h.pc = "matchRead"
  /\ LET doc == FindOne(RoleOf(h.my), h.my)
     IN inflight' = IF /\ doc.exists /\ ~doc.matchLocked
                       /\ ~Truthy(doc.pendingMatchWith) /\ doc.status = "Approved"
                    THEN Move(h, [h EXCEPT !.pc = "matchFind"])
                    ELSE Finish(h)
  /\ answer' = "none"
  /\ UNCHANGED <<reqs, finalized, confirmedBy>>
  /\ NoCards
  /\ Track

\* find({ status: 'Approved', matchLocked: { $ne: true }, pendingMatchWith
\* null or missing }) on the other collection.
IsCandidate(doc) ==
  /\ doc.exists /\ doc.status = "Approved"
  /\ ~doc.matchLocked
  /\ ~Truthy(doc.pendingMatchWith)
Candidates(role) == {c \in ColIds(role) : IsCandidate(reqs[c])}

\* triggerMatchingForRequest, second store call and the loop: one card to
\* the approved request's owner for each compatible candidate.
MatchFind(h) ==
  /\ h \in Of("approve") /\ h.pc = "matchFind"
  /\ cards' = Sent(UNION {SendMatchCard(h.my, ReadUnlocked(h.my), c, reqs[c]) :
                       c \in Candidates(OtherRole(RoleOf(h.my)))})
  /\ inflight' = Finish(h)
  /\ answer' = "none"
  /\ UNCHANGED <<reqs, finalized, confirmedBy>>
  /\ Track

\* processReject: the status write that also clears the match fields.
RejectDo(h) ==
  /\ h \in Of("reject")
  /\ reqs' = [reqs EXCEPT ![h.my] = RejectWrite(@)]
  /\ answer' = Say("Rejection sent.")
  /\ inflight' = Finish(h)
  /\ UNCHANGED <<finalized, confirmedBy>>
  /\ NoCards
  /\ Track

\* processRequestVisa: the status write.
VisaWrite(h) ==
  /\ h \in Of("visa")
  /\ reqs' = [reqs EXCEPT ![h.my].status = "VisaRequested"]
  /\ answer' = Say("Visa requested.")
  /\ inflight' = Finish(h)
  /\ UNCHANGED <<finalized, confirmedBy>>
  /\ NoCards
  /\ Track

\* bot.on('photo') outside a photo step: travelersCol.findOne({ userId,
\* status: 'VisaRequested' }) returns the first such document.
PendingVisa(user) ==
  LET c == {t \in Travelers : reqs[t].exists /\ reqs[t].userId = user
                               /\ reqs[t].status = "VisaRequested"}
  IN IF c = {} THEN Null ELSE CHOOSE t \in c : \A u \in c : t <= u

VisaPhotoStart(user) ==
  /\ CanSpawn
  /\ PendingVisa(user) # Null
  /\ inflight' = Spawn(Handler("visaPhoto", "write", PendingVisa(user), Null, user, NoSeen))
  /\ answer' = "none"
  /\ UNCHANGED <<reqs, finalized, confirmedBy>>
  /\ NoCards
  /\ Track

VisaPhotoWrite(h) ==
  /\ h \in Of("visaPhoto")
  /\ reqs' = [reqs EXCEPT ![h.my].status = "VisaUploaded"]
  /\ inflight' = Finish(h)
  /\ answer' = "none"
  /\ UNCHANGED <<finalized, confirmedBy>>
  /\ NoCards
  /\ Track

\* ------------------------------------------------------------------ terminate
\* updateMany({ userId }, { $set: { chatTerminated: true, ... },
\*            $unset: { matchedWith: '', pendingMatchWith: '' } })
TerminateWrite(doc) ==
  [doc EXCEPT !.matchedWith = Absent, !.pendingMatchWith = Null]

OwnedIn(role, user) ==
  {id \in ColIds(role) : reqs[id].exists /\ reqs[id].userId = user}

\* /terminate <userId> by a logged-in admin.  findUserByUserId (a findOne on
\* each collection) only decides found / not found, and neither result is
\* used again, so the two reads are one step; "User not found" ends the
\* handler with no write.
TerminateStart(user) ==
  /\ CanSpawn
  /\ inflight' = IF OwnedIn("sender", user) \cup OwnedIn("traveler", user) # {}
                 THEN Spawn(Handler("terminate", "updSenders", Null, Null, user, NoSeen))
                 ELSE inflight
  /\ answer' = "none"
  /\ UNCHANGED <<reqs, finalized, confirmedBy>>
  /\ NoCards
  /\ Track

TerminateSenders(h) ==
  /\ h \in Of("terminate") /\ h.pc = "updSenders"
  /\ reqs' = [id \in Ids |-> IF id \in OwnedIn("sender", h.actor)
                             THEN TerminateWrite(reqs[id]) ELSE reqs[id]]
  /\ inflight' = Move(h, [h EXCEPT !.pc = "updTravelers"])
  /\ answer' = "none"
  /\ UNCHANGED <<finalized, confirmedBy>>
  /\ NoCards
  /\ Track

TerminateTravelers(h) ==
  /\ h \in Of("terminate") /\ h.pc = "updTravelers"
  /\ reqs' = [id \in Ids |-> IF id \in OwnedIn("traveler", h.actor)
                             THEN TerminateWrite(reqs[id]) ELSE reqs[id]]
  /\ inflight' = Finish(h)
  /\ answer' = "none"
  /\ UNCHANGED <<finalized, confirmedBy>>
  /\ NoCards
  /\ Track

\* ------------------------------------------------------------------ delivery
\* findActiveMatchForUser's filter { userId, matchLocked: true,
\* matchedWith: { $exists: true } } on one collection.  The sort is by
\* matchFinalizedAt, a wall-clock value the model does not keep: any of the
\* matching documents may be the newest.
ActiveIn(role, user) ==
  {id \in OwnedIn(role, user) : reqs[id].matchLocked /\ reqs[id].matchedWith # Absent}

\* $set deliveryCompleted, $unset matchedWith and pendingMatchWith.
DeliveryWrite(doc) ==
  [doc EXCEPT !.deliveryCompleted = TRUE, !.matchedWith = Absent,
              !.pendingMatchWith = Null]

\* The delivery_completed button: the senders' findOne of
\* findActiveMatchForUser; my/other hold the document found and its
\* matchedWith.
DeliveryStart(user) ==
  /\ CanSpawn
  /\ \/ /\ ActiveIn("sender", user) = {}
        /\ inflight' = Spawn(Handler("delivery", "findTraveler", Null, Null, user, NoSeen))
     \/ \E s \in ActiveIn("sender", user) :
          inflight' = Spawn(Handler("delivery", "findTraveler", s,
                                    reqs[s].matchedWith, user, NoSeen))
  /\ answer' = "none"
  /\ UNCHANGED <<reqs, finalized, confirmedBy>>
  /\ NoCards
  /\ Track

\* The travelers' findOne and the choice of myDoc (the newer of the two when
\* both are found); no active match answers and stops.
DeliveryFindTraveler(h) ==
  /\ h \in Of("delivery") /\ h.pc = "findTraveler"
  /\ \/ /\ ActiveIn("traveler", h.actor) = {} /\ h.my = Null
        /\ inflight' = Finish(h)
        /\ answer' = Say("No active delivery found.")
     \/ /\ h.my # Null
        /\ inflight' = Move(h, [h EXCEPT !.pc = "updSenders"])
        /\ answer' = "none"
     \/ \E t \in ActiveIn("traveler", h.actor) :
          /\ inflight' = Move(h, [h EXCEPT !.pc = "updSenders", !.my = t,
                                           !.other = reqs[t].matchedWith])
          /\ answer' = "none"
  /\ UNCHANGED <<reqs, finalized, confirmedBy>>
  /\ NoCards
  /\ Track

DeliverySenders(h) ==
  /\ h \in Of("delivery") /\ h.pc = "updSenders"
  /\ reqs' = [id \in Ids |-> IF id \in Senders /\ id \in {h.my, h.other} /\ reqs[id].exists
                             THEN DeliveryWrite(reqs[id]) ELSE reqs[id]]
  /\ inflight' = Move(h, [h EXCEPT !.pc = "updTravelers"])
  /\ answer' = "none"
  /\ UNCHANGED <<finalized, confirmedBy>>
  /\ NoCards
  /\ Track

DeliveryTravelers(h) ==
  /\ h \in Of("delivery") /\ h.pc = "updTravelers"
  /\ reqs' = [id \in Ids |-> IF id \in Travelers /\ id \in {h.my, h.other} /\ reqs[id].exists
                             THEN DeliveryWrite(reqs[id]) ELSE reqs[id]]
  /\ answer' = Say("Delivery closed.")
  /\ inflight' = Finish(h)
  /\ UNCHANGED <<finalized, confirmedBy>>
  /\ NoCards
  /\ Track

\* ------------------------------------------------------------------ flows
\* The steps of the two submission flows.  A run of consecutive text
\* questions is one step, named after its first question; the steps that
\* wait for a button or a photo are the code's.
SenderSteps ==
  <<"sender_name", "package_category", "package_photo", "send_date",
    "selfie_id", "optional_notes", "confirm_pending">>
TravelerSteps ==
  <<"traveler_name", "passport_selfie", "itinerary_photo", "optional_notes",
    "confirm_pending">>
StepsOf(type) == IF type = "sender" THEN SenderSteps ELSE TravelerSteps

\* What the flow waits for at a step.
TextSteps == {"sender_name", "send_date", "optional_notes", "traveler_name"}
PhotoSteps == {"package_photo", "selfie_id", "passport_selfie", "itinerary_photo"}

\* The session after the input of its current step was accepted.
Advance(sess) ==
  LET steps == StepsOf(sess.type)
      i == CHOOSE k \in DOMAIN steps : steps[k] = sess.step
  IN [sess EXCEPT !.step = steps[i + 1]]

\* The message gate: sendersCol.findOne({ userId, suspended: true }) ||
\* travelersCol.findOne({ userId, suspended: true }).
Suspended(user) ==
  \E id \in Ids : reqs[id].exists /\ reqs[id].userId = user /\ reqs[id].suspended

\* The main-menu buttons flow_sender / flow_traveler.
FlowStart(user, role) ==
  /\ sessions' = [sessions EXCEPT ![user] = [type |-> role, step |-> StepsOf(role)[1]]]
  /\ answer' = "none"
  /\ UNCHANGED <<reqs, inflight, finalized, confirmedBy>>
  /\ NoCards
  /\ TrackStore

\* /start: the session is dropped and the menu is shown; the message gate
\* lets it through.
StartCommand(user) ==
  /\ sessions' = [sessions EXCEPT ![user] = NoSession]
  /\ answer' = "none"
  /\ UNCHANGED <<reqs, inflight, finalized, confirmedBy>>
  /\ NoCards
  /\ TrackStore

\* A text message other than a command: the gate, then the text step of the
\* flow in progress.
TextMessage(user) ==
  /\ sessions' = IF ~Suspended(user) /\ sessions[user].step \in TextSteps
                  THEN [sessions EXCEPT ![user] = Advance(@)]
                  ELSE sessions
  /\ answer' = "none"
  /\ UNCHANGED <<reqs, inflight, finalized, confirmedBy>>
  /\ NoCards
  /\ TrackStore

\* A cat_ button of the category keyboard.
CategoryPress(user) ==
  /\ IF sessions[user].type = "sender" /\ sessions[user].step = "package_category"
     THEN /\ sessions' = [sessions EXCEPT ![user] = Advance(@)]
          /\ answer' = "none"
     ELSE /\ sessions' = sessions
          /\ answer' = Say("Category not expected now. Please follow the flow.")
  /\ UNCHANGED <<reqs, inflight, finalized, confirmedBy>>
  /\ NoCards
  /\ TrackStore

\* A photo: the photo step of the flow in progress, otherwise the visa
\* upload for the user's VisaRequested request.
PhotoMessage(user) ==
  \/ /\ sessions[user].step \in PhotoSteps
     /\ sessions' = [sessions EXCEPT ![user] = Advance(@)]
     /\ answer' = "none"
     /\ UNCHANGED <<reqs, inflight, finalized, confirmedBy>>
     /\ NoCards
     /\ TrackStore
  \/ /\ sessions[user].step \notin PhotoSteps
     /\ VisaPhotoStart(user)

\* The Confirm & Submit button (confirm_yes) of the summary: the session
\* must be the one the button was made for; insertOne, then the session is
\* dropped.
ConfirmSubmit(user, limit) ==
  /\ sessions[user].step = "confirm_pending"
  /\ NextId(sessions[user].type) # Null
  /\ Cardinality({i \in Ids : reqs[i].exists}) < limit
  /\ reqs' = [reqs EXCEPT ![NextId(sessions[user].type)] = NewDoc(user, LightWeight)]
  /\ sessions' = [sessions EXCEPT ![user] = NoSession]
  /\ answer' = "none"
  /\ UNCHANGED <<inflight, finalized, confirmedBy>>
  /\ NoCards
  /\ TrackStore

\* ------------------------------------------------------------------ suspension
\* findUserByUserId: the user's first sender document, else the first
\* traveler document, else null.
FirstOwned(role, user) ==
  IF OwnedIn(role, user) = {} THEN Null
  ELSE CHOOSE id \in OwnedIn(role, user) : \A j \in OwnedIn(role, user) : id <= j

FindUserByUserId(user) ==
  IF FirstOwned("sender", user) # Null THEN FirstOwned("sender", user)
  ELSE FirstOwned("traveler", user)

\* /suspend <userId> and /unsuspend <userId> by a logged-in admin: the
\* lookup; my holds the document found, whose collection the write uses;
\* "User not found" ends the handler.
SuspendStart(command, user) ==
  /\ CanSpawn
  /\ command \in {"suspend", "unsuspend"}
  /\ inflight' = IF FindUserByUserId(user) = Null THEN inflight
                 ELSE Spawn(Handler(command, "write", FindUserByUserId(user),
                                    Null, user, NoSeen))
  /\ answer' = "none"
  /\ UNCHANGED <<reqs, finalized, confirmedBy>>
  /\ NoCards
  /\ Track

\* col.updateOne({ userId }, { $set: { suspended: true, ... } }) or
\* { $unset: { suspended: '', ... } }: the first document of the user in
\* that collection.
SuspendWrite(h) ==
  /\ h \in Of("suspend") \cup Of("unsuspend")
  /\ LET target == FirstOwned(RoleOf(h.my), h.actor)
     IN reqs' = [reqs EXCEPT ![target].suspended = (h.kind = "suspend")]
  /\ inflight' = Finish(h)
  /\ answer' = "none"
  /\ UNCHANGED <<finalized, confirmedBy>>
  /\ NoCards
  /\ Track

\* ------------------------------------------------------------------ admin
\* The gate with a pending PIN request counting as a login.
Authorized_AwaitingPin(actor) ==
  actor = SuperAdmin \/ adminAuth[actor].login \in {"loggedIn", "awaitingPin"}

\* String(invokedBy) === String(SUPER_ADMIN_ID) || adminAuth[invokedBy]?.loggedIn
Authorized(actor) ==
  actor = SuperAdmin \/ adminAuth[actor].login = "loggedIn"

\* A step that only answers or returns.
Denied(text) ==
  /\ answer' = Say(text)
  /\ UNCHANGED <<reqs, inflight, finalized, confirmedBy>>
  /\ NoCards
  /\ Track

\* A step that replaces the actor's adminAuth entry and answers.
SetAuth(actor, entry, text) ==
  /\ adminAuth' = [adminAuth EXCEPT ![actor] = entry]
  /\ answer' = Say(text)
  /\ UNCHANGED <<reqs, inflight, finalized, confirmedBy, sessions>>
  /\ NoCards
  /\ TrackBase

\* The text /admin: the super admin is logged in from any chat, anyone else
\* is asked for the PIN when writing in the admin group.
AdminLogin(actor, inGroup) ==
  IF actor = SuperAdmin
  THEN SetAuth(actor, [login |-> "loggedIn", reasonFor |-> Null],
               "Super Admin access granted")
  ELSE IF inGroup
  THEN SetAuth(actor, [login |-> "awaitingPin", reasonFor |-> Null],
               "Admin login: reply with PIN.")
  ELSE Denied("Not authorized to log in.")

\* The reply to the PIN request in the admin group: the PIN or another text.
AdminPin(actor, right) ==
  /\ adminAuth[actor].login = "awaitingPin"
  /\ IF right
     THEN SetAuth(actor, [login |-> "loggedIn", reasonFor |-> Null],
                  "Admin login successful.")
     ELSE SetAuth(actor, NoAuth, "Invalid PIN.")

\* An approve_, reason_info / reason_item / reason_doc or requestvisa_
\* button: the login check, then the handler.
AdminPress(actor, kind, id) ==
  \/ Authorized(actor) /\ ModStart(kind, id)
  \/ ~Authorized(actor) /\ Denied("Not authorized.")

\* The reject_ button (the reasons keyboard is shown; reasonFor is Null) and
\* the reason_other button (the custom reason is awaited) of the card of a
\* request: the login check, then the awaitingCustomReasonFor entry.
ReasonPress(actor, reasonFor) ==
  /\ reasonFor \in {Null} \cup {id \in Ids : reqs[id].exists}
  /\ \/ /\ Authorized(actor)
        /\ SetAuth(actor, [adminAuth[actor] EXCEPT !.reasonFor = reasonFor],
                   IF reasonFor = Null THEN "Choose rejection reason"
                   ELSE "Please type the rejection reason")
     \/ ~Authorized(actor) /\ Denied("Not authorized.")

\* /suspend, /unsuspend or /terminate <userId>: the message must come from
\* the admin group, and its sender must pass the login check.
AdminCommand(actor, inGroup, command, user) ==
  \/ /\ inGroup /\ Authorized(actor)
     /\ IF command = "terminate" THEN TerminateStart(user)
        ELSE SuspendStart(command, user)
  \/ inGroup /\ ~Authorized(actor) /\ Denied("Admin access required.")
  \/ ~inGroup /\ Denied("none")

\* ------------------------------------------------------------------ cards
\* buildSenderSnapshot / buildTravelerSnapshot of a document with its data.
BuildSenderSnapshot(doc) ==
  [pickup |-> doc.data.pickup, destination |-> doc.data.destination,
   weight |-> doc.data.weight, sendDate |-> doc.data.sendDate,
   matchLocked |-> doc.matchLocked]

BuildTravelerSnapshot(doc) ==
  [departure |-> doc.data.departure, destination |-> doc.data.destination,
   availableWeight |-> doc.data.availableWeight,
   departureTime |-> doc.data.departureTime, matchLocked |-> doc.matchLocked]

\* sendMatchCardToSender: nothing when the two documents are not compatible,
\* else the card sent to the sender's chat: what its text says about the
\* traveler (the notes only when there are any) and the photo it is sent
\* with (the sender's own package photo, '' for a plain message).
MatchCardToSender(senderDoc, travelerDoc) ==
  IF ~IsSenderTravelerCompatibleOn(BuildSenderSnapshot(senderDoc),
                                   BuildTravelerSnapshot(travelerDoc))
  THEN {}
  ELSE {[to |-> senderDoc.userId,
         about |-> [requestId |-> travelerDoc.requestId,
                    route |-> <<travelerDoc.data.departure, travelerDoc.data.destination>>,
                    dates |-> <<travelerDoc.data.departureTime, travelerDoc.data.arrivalTime>>,
                    weight |-> travelerDoc.data.availableWeight,
                    category |-> "",
                    notes |-> travelerDoc.data.notes],
         photoOf |-> IF senderDoc.data.packagePhoto # "" THEN "sender" ELSE "",
         photo |-> senderDoc.data.packagePhoto]}

\* sendMatchCardToTraveler: the card sent to the traveler's chat, with the
\* sender's package photo when there is one.
MatchCardToTraveler(travelerDoc, senderDoc) ==
  IF ~IsSenderTravelerCompatibleOn(BuildSenderSnapshot(senderDoc),
                                   BuildTravelerSnapshot(travelerDoc))
  THEN {}
  ELSE {[to |-> travelerDoc.userId,
         about |-> [requestId |-> senderDoc.requestId,
                    route |-> <<senderDoc.data.pickup, senderDoc.data.destination>>,
                    dates |-> <<senderDoc.data.sendDate>>,
                    weight |-> senderDoc.data.weight,
                    category |-> senderDoc.data.category,
                    notes |-> senderDoc.data.notes],
         photoOf |-> IF senderDoc.data.packagePhoto # "" THEN "sender" ELSE "",
         photo |-> senderDoc.data.packagePhoto]}

\* ------------------------------------------------------------------ submission
\* The text sent at the weight step is a sequence of characters.
Digits == {"0", "1"}
TextChars == Digits \cup {"-", ".", "a"}
TextsUpTo(n) == UNION {[1..k -> TextChars] : k \in 0..n}

\* The characters \d matches, in the order of their values.
DecimalDigits == <<"0", "1", "2", "3", "4", "5", "6", "7", "8", "9">>
IsDigit(c) == \E i \in DOMAIN DecimalDigits : DecimalDigits[i] = c
DigitValue(c) == (CHOOSE i \in DOMAIN DecimalDigits : DecimalDigits[i] = c) - 1

\* The length of the run of digits text starts with (\d+ takes all of it).
RECURSIVE DigitRun(_)
DigitRun(text) ==
  IF text # <<>> /\ IsDigit(Head(text)) THEN 1 + DigitRun(Tail(text)) ELSE 0

\* text from its first digit on, <<>> when it has none: where
\* text.match(/(\d+(\.\d+)?)/) starts.
RECURSIVE FromFirstDigit(_)
FromFirstDigit(text) ==
  IF text = <<>> \/ IsDigit(Head(text)) THEN text ELSE FromFirstDigit(Tail(text))

\* The decimal value of a run of digits.
RECURSIVE DigitsValue(_)
DigitsValue(digits) ==
  IF digits = <<>> THEN 0
  ELSE 10 * DigitsValue(SubSeq(digits, 1, Len(digits) - 1)) + DigitValue(digits[Len(digits)])

\* A decimal without its trailing zeros: <<numerator, power of ten>>.
RECURSIVE Reduced(_, _)
Reduced(numerator, scale) ==
  IF scale > 1 /\ numerator % 10 = 0 THEN Reduced(numerator \div 10, scale \div 10)
  ELSE <<numerator, scale>>

\* parseFloat(m[1]) of a text that starts with a digit: the digits, and the
\* digits after a point when a digit follows the point.
MatchedNumber(text) ==
  LET whole == DigitRun(text)
      rest == SubSeq(text, whole + 1, Len(text))
      decimals == IF rest # <<>> /\ Head(rest) = "." THEN DigitRun(Tail(rest)) ELSE 0
  IN Reduced(DigitsValue(SubSeq(text, 1, whole)) * 10^decimals
               + DigitsValue(SubSeq(rest, 2, decimals + 1)),
             10^decimals)

\* The package_weight / available_weight step on a text: no number found or
\* a number that is not positive leaves the session as it is, a number
\* above 10 drops the session, any other number is stored.
WeightStep(text) ==
  IF FromFirstDigit(text) = <<>> THEN [outcome |-> "stay"]
  ELSE LET w == MatchedNumber(FromFirstDigit(text))
       IN IF w[1] <= 0 THEN [outcome |-> "stay"]
          ELSE IF w[1] > MaxWeight * w[2] THEN [outcome |-> "drop"]
          ELSE [outcome |-> "store", weight |-> w]

\* makeRequestId(prefix): the prefix and the clock's second.
MakeRequestId(role) == <<IF role = "sender" THEN "snd" ELSE "trv", clock>>

\* The clock moves on by a second.
Tick ==
  /\ clock < MaxClock
  /\ clock' = clock + 1
  /\ answer' = "none"
  /\ UNCHANGED <<reqs, inflight, finalized, confirmedBy, staleFor, cards,
                 received, sessions, adminAuth, recording, probe, inserted>>

\* A step of the flows that changes the chat's session only.
SessionStep(user, sess, text) ==
  /\ sessions' = [sessions EXCEPT ![user] = sess]
  /\ answer' = Say(text)
  /\ UNCHANGED <<reqs, inflight, finalized, confirmedBy>>
  /\ NoCards
  /\ TrackStore

\* startSenderFlow / startTravelerFlow and the answers to the questions
\* before the weight: the flow asks for the weight.
AskWeight(user, role) ==
  SessionStep(user, [type |-> role, step |-> "weight", weight |-> <<0, 1>>,
                     requestId |-> <<>>], "Enter weight")

\* The text answering the weight question.
WeightMessage(user, text) ==
  /\ sessions[user].step = "weight"
  /\ LET res == WeightStep(text)
     IN IF res.outcome = "stay"
        THEN SessionStep(user, sessions[user], "Enter a positive weight.")
        ELSE IF res.outcome = "drop"
        THEN SessionStep(user, NoSession, "Weight > 10kg. Not allowed.")
        ELSE SessionStep(user, [sessions[user] EXCEPT !.weight = res.weight,
                                                      !.step = "optional_notes"],
                         "none")

\* The answers to the questions after the weight, the last being the
\* notes: the request id is made and the summary is shown with its
\* Confirm & Submit button.
NotesMessage(user) ==
  /\ sessions[user].step = "optional_notes"
  /\ SessionStep(user, [sessions[user] EXCEPT
                          !.requestId = MakeRequestId(sessions[user].type),
                          !.step = "confirm_pending"], "Summary")

\* The button of a summary (confirm_yes / confirm_no with its request id)
\* pressed in the chat: the session must hold that request id.  No drops
\* the session; yes starts handleFinalSenderSubmit /
\* handleFinalTravelerSubmit, which runs up to its insertOne.
SummaryPress(user, decision, requestId) ==
  IF sessions[user].type = "none" \/ sessions[user].requestId # requestId
  THEN Denied("Session mismatch or expired.")
  ELSE IF decision = "no"
  THEN SessionStep(user, NoSession, "Submission cancelled.")
  ELSE /\ CanSpawn
       /\ Len(inserted) < MaxRequests
       /\ inserted' = Append(inserted,
                             [requestId |-> sessions[user].requestId,
                              userId |-> user, role |-> sessions[user].type,
                              weight |-> sessions[user].weight,
                              status |-> "Pending", matchLocked |-> FALSE,
                              pendingMatchWith |-> Null, matchedWith |-> Null])
       /\ inflight' = Spawn(Handler("submit", "notify", Null, Null, user,
                                    [requestId |-> sessions[user].requestId]))
       /\ answer' = "none"
       /\ UNCHANGED <<reqs, finalized, confirmedBy, cards, staleFor, received,
                      sessions, adminAuth, recording, probe, clock>>

\* The end of handleFinalSenderSubmit / handleFinalTravelerSubmit, after the
\* messages to the chat and to the admin group: userSessions[chatId] = null.
SubmitFinish(h) ==
  /\ h.kind = "submit"
  /\ sessions' = [sessions EXCEPT ![h.actor] = NoSession]
  /\ inflight' = Finish(h)
  /\ answer' = Say("submitted")
  /\ UNCHANGED <<reqs, finalized, confirmedBy>>
  /\ NoCards
  /\ TrackStore

\* ------------------------------------------------------------------ calls
\* A helper function called on its own: the call is drawn in the initial
\* state and the step returns its result.
Call(fn, arguments) == [fn |-> fn, arguments |-> arguments, done |-> FALSE]
Returned(fn) == probe.fn = fn /\ probe.done

Return(fn, result) ==
  /\ probe.fn = fn /\ ~probe.done
  /\ probe' = [fn |-> fn, arguments |-> probe.arguments, done |-> TRUE,
               out |-> result]
  /\ UNCHANGED <<reqs, inflight, answer, finalized, confirmedBy, staleFor,
                 cards, received, sessions, adminAuth, recording, clock,
                 inserted>>

\* isWeightCompatible(senderWeight, travelerWeight) on every pair of weights
\* of at most 10 kg given in hundredths.
InitWeight ==
  /\ InitStore("off")
  /\ \E a \in Hundredths, b \in Hundredths :
       probe = Call("isWeightCompatible", <<a, b>>)

CallWeight ==
  Return("isWeightCompatible",
         IsWeightCompatibleNumber(probe.arguments[1], probe.arguments[2]))

SpecWeight == InitWeight /\ [][CallWeight]_vars

\* areDatesClose(sendDate, departureTime) on dates around the ends of
\* February, December and the year, some of them not on the calendar, and
\* departure times at both ends of the day.
ProbeDates == (1..31) \X {1, 2, 3, 12} \X {2024, 2025}
ProbeTimes == {<<0, 0>>, <<12, 30>>, <<23, 59>>}

InitDates ==
  /\ InitStore("off")
  /\ \E d \in ProbeDates, t \in ProbeDates, time \in ProbeTimes :
       probe = Call("areDatesClose", <<d, <<t[1], t[2], t[3], time[1], time[2]>> >>)

CallDates ==
  Return("areDatesClose", AreDatesClose(probe.arguments[1], probe.arguments[2]))

SpecDates == InitDates /\ [][CallDates]_vars

\* normalizeAirportName(a) and airportsMatch(a, b) on every name of at most
\* MaxNameLen pieces.
InitAirport ==
  /\ InitStore("off")
  /\ \/ \E a \in NamesUpTo(MaxNameLen) : probe = Call("normalizeAirportName", <<a>>)
     \/ \E a \in NamesUpTo(MaxNameLen), b \in NamesUpTo(MaxNameLen) :
          probe = Call("airportsMatch", <<a, b>>)

CallNormalize ==
  Return("normalizeAirportName", NormalizeAirportName(probe.arguments[1]))

CallMatch ==
  Return("airportsMatch", AirportsMatch(probe.arguments[1], probe.arguments[2]))

AirportNext == CallNormalize \/ CallMatch

SpecAirport == InitAirport /\ [][AirportNext]_vars

\* isSenderTravelerCompatible(s, t), called by the matching scan of the
\* sender's or of the traveler's approval, on snapshots whose routes are
\* written in several ways or missing, with weights around the tolerance
\* and dates around the end of February.
ProbeAirports == {<<>>, <<"Delhi">>, <<"DELHI", " ", "AIRPORT">>, <<"AIRPORT">>}
ProbeSenderSnaps ==
  [pickup : ProbeAirports, destination : {<<"DELHI">>, <<"Delhi", " ", "Intl">>},
   weight : {203, 500}, sendDate : {<<>>, <<28, 2, 2024>>},
   matchLocked : BOOLEAN]
ProbeTravelerSnaps ==
  [departure : ProbeAirports, destination : {<<"DELHI">>, <<"INTERNATIONAL">>},
   availableWeight : {403, 700, 701},
   departureTime : {<<>>, <<29, 2, 2024, 23, 59>>, <<1, 3, 2024, 0, 0>>},
   matchLocked : BOOLEAN]

InitCompatible ==
  /\ InitStore("off")
  /\ \E role \in Roles, s \in ProbeSenderSnaps, t \in ProbeTravelerSnaps :
       probe = Call("isSenderTravelerCompatible", <<role, s, t>>)

CallCompatible ==
  Return("isSenderTravelerCompatible",
         IsSenderTravelerCompatibleOn(probe.arguments[2], probe.arguments[3]))

SpecCompatible == InitCompatible /\ [][CallCompatible]_vars

\* sendMatchCardToSender / sendMatchCardToTraveler on the documents of two
\* users on the same route, whose personal data, notes and photos vary.
ProbeSenderDocs ==
  {[userId |-> 1, requestId |-> 1, matchLocked |-> locked,
    data |-> [name |-> name, phone |-> phone, email |-> email,
              selfieId |-> selfieId, pickup |-> <<"Delhi">>,
              destination |-> <<"DELHI", " ", "AIRPORT">>, weight |-> 500,
              category |-> category, sendDate |-> <<28, 2, 2024>>,
              notes |-> notes, packagePhoto |-> packagePhoto]] :
     locked \in BOOLEAN, name \in {"Asha", "Ravi"},
     phone \in {"+911111111111", "+912222222222"},
     email \in {"a@x.in", "r@x.in"}, selfieId \in {"selfie1", "selfie2"},
     category \in {"Documents", "Clothes"},
     notes \in {"", "call me on +911111111111"},
     packagePhoto \in {"", "package1"}}

ProbeTravelerDocs ==
  {[userId |-> 2, requestId |-> 3, matchLocked |-> FALSE,
    data |-> [name |-> name, phone |-> phone, email |-> email,
              passportSelfie |-> passportSelfie, departure |-> <<"DELHI">>,
              destination |-> <<"Delhi">>, availableWeight |-> 700,
              departureTime |-> <<29, 2, 2024, 23, 59>>,
              arrivalTime |-> <<1, 3, 2024, 6, 0>>, notes |-> notes]] :
     name \in {"Meera", "John"}, phone \in {"+913333333333", "+914444444444"},
     email \in {"m@x.in", "j@x.in"}, passportSelfie \in {"passport1", "passport2"},
     notes \in {"", "mail me at m@x.in"}}

InitCard ==
  /\ InitStore("off")
  /\ \E fn \in {"sendMatchCardToSender", "sendMatchCardToTraveler"},
        senderDoc \in ProbeSenderDocs, travelerDoc \in ProbeTravelerDocs :
       probe = Call(fn, <<senderDoc, travelerDoc>>)

CallCardToSender ==
  Return("sendMatchCardToSender",
         MatchCardToSender(probe.arguments[1], probe.arguments[2]))

CallCardToTraveler ==
  Return("sendMatchCardToTraveler",
         MatchCardToTraveler(probe.arguments[2], probe.arguments[1]))

CardNext == CallCardToSender \/ CallCardToTraveler

SpecCard == InitCard /\ [][CardNext]_vars

\* The weight step on every text of at most MaxTextLen characters.
InitWeightStep ==
  /\ InitStore("off")
  /\ \E text \in TextsUpTo(MaxTextLen) : probe = Call("weight step", <<text>>)

CallWeightStep == Return("weight step", WeightStep(probe.arguments[1]))

SpecWeightStep == InitWeightStep /\ [][CallWeightStep]_vars

\* The submission flows from the weight question on, for every text of at
\* most ShortTextLen characters sent as the weight, with the clock and the
\* summary buttons of every request id.
RequestIds == {"snd", "trv"} \X (0..MaxClock)

SubmitNext ==
  \/ Tick
  \/ \E user \in Users, role \in Roles : AskWeight(user, role)
  \/ \E user \in Users, text \in TextsUpTo(ShortTextLen) : WeightMessage(user, text)
  \/ \E user \in Users : NotesMessage(user)
  \/ \E user \in Users, decision \in {"yes", "no"}, requestId \in RequestIds :
       SummaryPress(user, decision, requestId)
  \/ \E h \in Running : SubmitFinish(h)

SpecSubmit == Quiet /\ [][SubmitNext]_vars

\* The send_date and arrival_date steps of the sender flow at the moment
\* `now`, on the two texts sent: what each step stores (<<>> when the text
\* is refused; the arrival date is asked only once the send date is stored).
SenderDateSteps(now, send, arrival) ==
  LET today == StartOfDay(Moment(now, now[4], now[5]))
      sendDate == IF IsValidDate(send) /\ Moment(send, 0, 0) >= today
                  THEN send ELSE <<>>
      arrivalDate == IF /\ sendDate # <<>> /\ IsValidDate(arrival)
                        /\ Moment(arrival, 0, 0) >= today
                        /\ Moment(arrival, 0, 0) >= Moment(send, 0, 0)
                     THEN arrival ELSE <<>>
  IN [sendDate |-> sendDate, arrivalDate |-> arrivalDate]

\* The departure_time and arrival_time steps of the traveler flow: each
\* stores the text when it parses.
TravelerDateSteps(now, departure, arrival) ==
  LET departureTime == IF IsValidDateTime(departure) THEN departure ELSE <<>>
      arrivalTime == IF departureTime # <<>> /\ IsValidDateTime(arrival)
                     THEN arrival ELSE <<>>
  IN [departureTime |-> departureTime, arrivalTime |-> arrivalTime]

\* The date steps of both flows at two moments, on dates around the end of
\* February 2024, some of them not on the calendar.
StepDates == (27..31) \X {2, 3} \X {2024}
StepTimes == {<<0, 0>>, <<23, 59>>}
StepDateTimes == {<<d[1], d[2], d[3], t[1], t[2]>> : d \in StepDates, t \in StepTimes}
StepNows == {<<29, 2, 2024, 12, 30>>, <<28, 3, 2024, 0, 0>>}

InitDateSteps ==
  /\ InitStore("off")
  /\ \/ \E now \in StepNows, a \in StepDates, b \in StepDates :
          probe = Call("sender dates", <<now, a, b>>)
     \/ \E now \in StepNows, a \in StepDateTimes, b \in StepDateTimes :
          probe = Call("traveler dates", <<now, a, b>>)

CallSenderDates ==
  Return("sender dates",
         SenderDateSteps(probe.arguments[1], probe.arguments[2], probe.arguments[3]))

CallTravelerDates ==
  Return("traveler dates",
         TravelerDateSteps(probe.arguments[1], probe.arguments[2], probe.arguments[3]))

SpecDateSteps == InitDateSteps /\ [][CallSenderDates \/ CallTravelerDates]_vars

\* ------------------------------------------------------------------ spec
ConfirmSteps ==
  \/ \E h \in Running : ConfirmReadOther(h)
  \/ \E h \in Running : ConfirmLockMy(h)
  \/ \E h \in Running : ConfirmLockOther(h)
  \/ \E h \in Running : ConfirmSetPending(h)

\* A Confirm button pressed by any user.
ConfirmNext ==
  \/ \E role \in Roles, my \in Ids, other \in Ids, actor \in Users :
       ConfirmStart(role, my, other, actor)
  \/ ConfirmSteps

\* A Confirm button pressed by the owner of the card's own request.
OwnerConfirmNext ==
  \/ \E role \in Roles, my \in Ids, other \in Ids :
       reqs[my].exists /\ ConfirmStart(role, my, other, reqs[my].userId)
  \/ ConfirmSteps

\* The Confirm button of a match card that was sent, pressed by the chat
\* that received it (the owner of the card's own request at sending).
PressCard(my, other) ==
  /\ <<my, other>> \in received
  /\ ConfirmStart(RoleOf(my), my, other, reqs[my].userId)

DecideNext ==
  \/ \E kind \in {"approve", "reject"}, id \in Ids : ModStart(kind, id)
  \/ \E h \in Running : ApproveWrite(h)
  \/ \E h \in Running : MatchRead(h)
  \/ \E h \in Running : MatchFind(h)
  \/ \E h \in Running : RejectDo(h)

VisaNext ==
  \/ \E id \in Ids : ModStart("visa", id)
  \/ \E h \in Running : VisaWrite(h)
  \/ \E user \in Users : VisaPhotoStart(user)
  \/ \E h \in Running : VisaPhotoWrite(h)

ModerationNext == DecideNext \/ VisaNext

DissolveNext ==
  \/ \E user \in Users : TerminateStart(user)
  \/ \E h \in Running : TerminateSenders(h)
  \/ \E h \in Running : TerminateTravelers(h)
  \/ \E user \in Users : DeliveryStart(user)
  \/ \E h \in Running : DeliveryFindTraveler(h)
  \/ \E h \in Running : DeliverySenders(h)
  \/ \E h \in Running : DeliveryTravelers(h)

\* Every handler, with at most MaxRequests documents in the store.
Next ==
  \/ \E role \in Roles, user \in Users : Submit(role, user, MaxRequests)
  \/ ConfirmNext
  \/ ModerationNext
  \/ DissolveNext

Spec == Init /\ [][Next]_vars

\* Submission, approve / reject and confirmation, with every id in use.
MatchNext ==
  \/ \E role \in Roles, user \in Users : Submit(role, user, NumSenders + NumTravelers)
  \/ ConfirmNext
  \/ DecideNext

SpecMatch == Quiet /\ [][MatchNext]_vars

\* Submission, all of moderation, and confirmations pressed by owners.
StaleNext ==
  \/ \E role \in Roles, user \in Users : Submit(role, user, NumSenders + NumTravelers)
  \/ OwnerConfirmNext
  \/ ModerationNext

SpecStale == Quiet /\ [][StaleNext]_vars

\* Submissions of either weight by travelers, approve / reject with the
\* matching scan, and the Confirm buttons of the cards sent.
OfferNext ==
  \/ \E user \in Users : Submit("sender", user, NumSenders + NumTravelers)
  \/ \E user \in Users, w \in Weights :
       SubmitWith("traveler", user, NumSenders + NumTravelers, w)
  \/ \E my \in Ids, other \in Ids : PressCard(my, other)
  \/ ConfirmSteps
  \/ DecideNext

SpecOffer == WithHistory /\ [][OfferNext]_vars

\* The submission flows, the message gate, /suspend and /unsuspend, the visa
\* request and upload, with at most MaxRequests documents in the store.
FlowNext ==
  \/ \E user \in Users, role \in Roles : FlowStart(user, role)
  \/ \E user \in Users : StartCommand(user)
  \/ \E user \in Users : TextMessage(user)
  \/ \E user \in Users : CategoryPress(user)
  \/ \E user \in Users : PhotoMessage(user)
  \/ \E user \in Users : ConfirmSubmit(user, MaxRequests)

SuspendNext ==
  \/ FlowNext
  \/ \E command \in {"suspend", "unsuspend"}, user \in Users : SuspendStart(command, user)
  \/ \E h \in Running : SuspendWrite(h)
  \/ \E id \in Ids : ModStart("visa", id)
  \/ \E h \in Running : VisaWrite(h)
  \/ \E h \in Running : VisaPhotoWrite(h)

SpecSuspend == Quiet /\ [][SuspendNext]_vars

\* Submission, approve / reject, confirmations pressed by any user and
\* /terminate: the only step that leaves a request matchLocked without a
\* matchedWith is a /terminate write on a locked request.
TerminateNext ==
  \/ \E role \in Roles, user \in Users : Submit(role, user, MaxRequests)
  \/ ConfirmNext
  \/ DecideNext
  \/ \E user \in Users : TerminateStart(user)
  \/ \E h \in Running : TerminateSenders(h)
  \/ \E h \in Running : TerminateTravelers(h)

SpecTerminate == Init /\ [][TerminateNext]_vars

\* The admin login, the moderation buttons and the admin commands issued by
\* any actor, with their handlers, on a store of MinRequests documents.
AdminNext ==
  \/ \E role \in Roles, user \in Users : Submit(role, user, MinRequests)
  \/ \E actor \in Actors, inGroup \in BOOLEAN : AdminLogin(actor, inGroup)
  \/ \E actor \in Actors, right \in BOOLEAN : AdminPin(actor, right)
  \/ \E actor \in Actors, kind \in {"approve", "reject", "visa"}, id \in Ids :
       AdminPress(actor, kind, id)
  \/ \E actor \in Actors, reasonFor \in Ids \cup {Null} : ReasonPress(actor, reasonFor)
  \/ \E actor \in Actors, inGroup \in BOOLEAN,
        command \in {"suspend", "unsuspend", "terminate"}, user \in Users :
       AdminCommand(actor, inGroup, command, user)
  \/ \E h \in Running : ApproveWrite(h)
  \/ \E h \in Running : MatchRead(h)
  \/ \E h \in Running : MatchFind(h)
  \/ \E h \in Running : RejectDo(h)
  \/ \E h \in Running : VisaWrite(h)
  \/ \E h \in Running : SuspendWrite(h)
  \/ \E h \in Running : TerminateSenders(h)
  \/ \E h \in Running : TerminateTravelers(h)

SpecAdmin == Init /\ [][AdminNext]_vars

\* ------------------------------------------------------------------ claims
Locked(a) == reqs[a].matchLocked
NoConfirmInFlight(x, y) ==
  \A h \in Confirming : {h.my, h.other} # {x, y}

\* C1: lock symmetry.  In every reachable state, a is matchLocked with
\* matchedWith = b iff b is matchLocked with matchedWith = a.
C1_LockSymmetry ==
  \A a, b \in Ids :
    (Locked(a) /\ reqs[a].matchedWith = b) <=> (Locked(b) /\ reqs[b].matchedWith = a)

\* C2: no request is matchLocked and holds a non-null pendingMatchWith.
C2_LockExcludesPending ==
  \A a \in Ids : ~(Locked(a) /\ Truthy(reqs[a].pendingMatchWith))

\* C3: for one pair, at most one confirmation handler performs the lock
\* (its writes and its match-finalized notice).
C3_OneLockPerPair == \A p \in Pairs : finalized[p] <= 1

\* C4: no two distinct requests are matchLocked with matchedWith naming the
\* same request.
C4_OnePartner ==
  \A a, b \in Ids :
    (a # b /\ Locked(a) /\ Locked(b) /\ Truthy(reqs[a].matchedWith))
      => reqs[a].matchedWith # reqs[b].matchedWith

\* C5: every matchLocked request has a non-null matchedWith.
C5_LockedHasPartner == \A a \in Ids : Locked(a) => Truthy(reqs[a].matchedWith)

\* C6: two requests are locked with each other only if each one's owner has
\* confirmed the other.
C6_DoubleConfirmation ==
  \A x, y \in Ids :
    LockedTogether(x, y) => (<<x, y>> \in confirmedBy /\ <<y, x>> \in confirmedBy)

C6_Witness == \E x, y \in Ids : LockedTogether(x, y)

\* C7: once x's owner has confirmed y and y's owner has confirmed x (both
\* Approved, match fields never removed by a rejection) and no confirmation
\* handler of the pair is in flight, the pair is locked with each other and
\* both pendingMatchWith are cleared.
C7_MutualConfirmLocks ==
  \A x, y \in Ids :
    ( /\ <<x, y>> \in confirmedBy /\ <<y, x>> \in confirmedBy
      /\ NoConfirmInFlight(x, y)
      /\ reqs[x].status = "Approved" /\ reqs[y].status = "Approved"
      /\ reqs[x].matchedWith # Absent /\ reqs[y].matchedWith # Absent )
    => ( /\ LockedTogether(x, y)
         /\ ~Truthy(reqs[x].pendingMatchWith) /\ ~Truthy(reqs[y].pendingMatchWith) )

\* C8: once x was left holding pendingMatchWith = y while y locked with a
\* different request (y's owner never having confirmed x), x and y are never
\* locked with each other.
C8_StaleNeverLocks == \A p \in staleFor : ~LockedTogether(p[1], p[2])

\* The step in which confirmation handler h performs its second read and its
\* checks: a copy of h at "readOther" leaves the handlers in flight.
ChecksNow(h) ==
  /\ h.kind = "confirm" /\ h.pc = "readOther"
  /\ CopiesIn(h, inflight') < CopiesIn(h, inflight)

\* The counterpart's document as the second findOne returns it.
OtherRead(h) == FindOne(OtherRole(RoleOf(h.my)), h.other)

StaleReference(h) ==
  \/ ~h.myDoc.exists \/ ~OtherRead(h).exists
  \/ h.myDoc.status # "Approved" \/ OtherRead(h).status # "Approved"
  \/ h.myDoc.matchLocked \/ OtherRead(h).matchLocked

StaleNotices ==
  { "Match not found anymore.", "This match card is not for you.",
    "One of the requests is not approved anymore.",
    "Already matched with someone else." }

\* C9: a confirmation whose handler loads a missing, non-Approved or
\* matchLocked document for either request ends at its checks: it answers a
\* notice, leaves the store as it is and performs no later step.
C9_StaleReferenceHarmless ==
  [][\A h \in Running :
       (ChecksNow(h) /\ StaleReference(h))
         => (reqs' = reqs /\ inflight' = Finish(h) /\ answer' \in StaleNotices)]_vars

C9_Witness == answer = "Already matched with someone else."

\* C10: a confirmation pressed by an actor other than the owner of the "my"
\* request ends at its checks with the rejection ("not for you", or "not
\* found" when the counterpart is gone), leaves the store as it is and
\* performs no later step.
C10_NonOwnerRejected ==
  [][\A h \in Running :
       (ChecksNow(h) /\ h.myDoc.exists /\ h.myDoc.userId # h.actor)
         => ( /\ reqs' = reqs /\ inflight' = Finish(h)
              /\ answer' = IF OtherRead(h).exists
                            THEN "This match card is not for you."
                            ELSE "Match not found anymore." )]_vars

C10_Witness == answer = "This match card is not for you."

\* A request that may be a candidate: Approved and not matchLocked.
Eligible(id) ==
  reqs[id].exists /\ reqs[id].status = "Approved" /\ ~reqs[id].matchLocked

\* C11: every match card sent by a step (by the matching scan of an approval
\* or forwarded after a first confirmation) names two requests that are both
\* Approved and not matchLocked when the step has sent it.
C11_OffersEligible == \A c \in cards : Eligible(c[1]) /\ Eligible(c[2])

\* The step that ends the approval handling of handler h: triggerMatchingForRequest
\* returns, either at its early returns or after its loop.
ScanEnds(h) ==
  /\ h.kind = "approve" /\ h.pc \in {"matchRead", "matchFind"}
  /\ inflight' = Finish(h)

\* The compatibility of two requests of opposite roles as the matcher
\* computes it from their submitted fields.
Fits(a, b) ==
  IF a \in Senders THEN IsWeightCompatible(reqs[a].weight, reqs[b].weight)
  ELSE IsWeightCompatible(reqs[b].weight, reqs[a].weight)

\* C12: the approval handling of request R sends a card for the pair (R, c)
\* for every opposite-role request c that is Approved, not matchLocked and
\* compatible with R, whatever c's pendingMatchWith.
C12_ScanOffersAll ==
  [][\A h \in Running :
       ScanEnds(h) =>
         \A c \in ColIds(OtherRole(RoleOf(h.my))) :
           (Eligible(c) /\ Fits(h.my, c))
             => (<<h.my, c>> \in cards' \/ <<c, h.my>> \in cards')]_vars

\* C13: once a compatible sender request and traveler request are both
\* Approved (neither locked, neither owner having confirmed anything, every
\* handler finished), each owner has received a card for the pair.
C13_BothOffered ==
  \A s \in Senders, t \in Travelers :
    ( /\ inflight = EmptyBag
      /\ Eligible(s) /\ Eligible(t) /\ Fits(s, t)
      /\ ~Truthy(reqs[s].pendingMatchWith) /\ ~Truthy(reqs[t].pendingMatchWith) )
    => (<<s, t>> \in received /\ <<t, s>> \in received)

\* C14: the reject action applied to a request that is Approved and holds a
\* pendingMatchWith or is matchLocked leaves it Rejected with
\* pendingMatchWith and matchedWith cleared and matchLocked false.
C14_RejectClears ==
  [][\A id \in Ids :
       ( /\ ModStart("reject", id)
         /\ reqs[id].exists /\ reqs[id].status = "Approved"
         /\ (Truthy(reqs[id].pendingMatchWith) \/ reqs[id].matchLocked) )
       => ( /\ reqs'[id].status = "Rejected"
            /\ ~Truthy(reqs'[id].pendingMatchWith)
            /\ ~Truthy(reqs'[id].matchedWith)
            /\ ~reqs'[id].matchLocked )]_vars

\* C15: in every reachable state no Rejected request is matchLocked or has a
\* non-null matchedWith, and no matchLocked request's matchedWith names a
\* Rejected request.
C15_RejectedNotMatched ==
  \A a \in Ids :
    /\ (reqs[a].exists /\ reqs[a].status = "Rejected")
         => (~reqs[a].matchLocked /\ ~Truthy(reqs[a].matchedWith))
    /\ (reqs[a].matchLocked /\ Truthy(reqs[a].matchedWith))
         => reqs[reqs[a].matchedWith].status # "Rejected"

\* C16: processApprove applied to a request that is already Approved or
\* already Rejected writes nothing, starts no later step (no approval
\* notice, no matching scan, no card) and answers that the request is
\* already in that state.
C16_ApproveNoOpOnFinal ==
  [][\A id \in Ids :
       ( /\ ModStart("approve", id)
         /\ reqs[id].exists /\ reqs[id].status \in {"Approved", "Rejected"} )
       => ( /\ reqs' = reqs /\ inflight' = inflight /\ cards' = {}
            /\ answer' = IF reqs[id].status = "Approved"
                          THEN "Already approved."
                          ELSE "Request was already rejected." )]_vars

C16_Witness == answer = "Request was already rejected."

\* C17: processApprove applied to a traveler request whose status is
\* VisaRequested goes no further than its checks: no handler continues to
\* the Approved write and the matching scan.
C17_VisaGatesApproval ==
  [][\A id \in Travelers :
       ( /\ ModStart("approve", id)
         /\ reqs[id].exists /\ reqs[id].status = "VisaRequested" )
       => (reqs' = reqs /\ inflight' = inflight)]_vars

\* An inbound event of the user other than /start: a text message, a photo,
\* a category button or the Confirm & Submit button.
GatedEvent(user) ==
  \/ TextMessage(user)
  \/ PhotoMessage(user)
  \/ CategoryPress(user)
  \/ \E limit \in {MaxRequests} : ConfirmSubmit(user, limit)

\* C18: while a user is suspended, an inbound event of that user other than
\* /start writes nothing to the store, starts no handler that goes on to a
\* store write and leaves the user's session as it is.
C18_SuspendedBlocked ==
  [][\A user \in Users :
       (Suspended(user) /\ GatedEvent(user))
         => (reqs' = reqs /\ inflight' = inflight /\ sessions'[user] = sessions[user])]_vars

\* The step in which the handler of /unsuspend performs its write and ends.
UnsuspendEnds(h) ==
  /\ h.kind = "unsuspend"
  /\ CopiesIn(h, inflight') < CopiesIn(h, inflight)

\* C19: when the handler of /unsuspend u has performed its write, the message
\* gate no longer finds u suspended, whatever requests u holds.
C19_UnsuspendRestores ==
  [][\A h \in Running : UnsuspendEnds(h) => ~Suspended(h.actor)']_vars

\* The step in which the handler of /terminate performs its last write.
TerminateEnds(h) ==
  /\ h.kind = "terminate" /\ h.pc = "updTravelers"
  /\ CopiesIn(h, inflight') < CopiesIn(h, inflight)

\* Request id is a party to a match: it carries the lock, or its counterpart o does
\* and names it.
MatchedPair(id, o) ==
  /\ reqs[id].exists /\ reqs[o].exists
  /\ \/ reqs[id].matchLocked /\ reqs[id].matchedWith = o
     \/ reqs[o].matchLocked /\ reqs[o].matchedWith = id

\* C20: when /terminate u performs its last write, both requests of every
\* match that a request of u is still a party to end with matchedWith and
\* pendingMatchWith unset and matchLocked false.
C20_TerminateDissolves ==
  [][\A h \in Running :
       TerminateEnds(h) =>
         \A id, o \in Ids :
           (reqs[id].userId = h.actor /\ MatchedPair(id, o))
             => \A x \in {id, o} :
                  /\ ~reqs'[x].matchLocked
                  /\ ~Truthy(reqs'[x].matchedWith)
                  /\ ~Truthy(reqs'[x].pendingMatchWith)]_vars

\* A request whose live match was terminated: /terminate removed its
\* matchedWith and left its matchLocked.
Dissolved(x) ==
  reqs[x].exists /\ reqs[x].matchLocked /\ reqs[x].matchedWith = Absent

\* The counterpart of a terminated request: still locked and naming it.
LeftBehind(x) ==
  /\ reqs[x].exists /\ reqs[x].matchLocked /\ Truthy(reqs[x].matchedWith)
  /\ Dissolved(reqs[x].matchedWith)

\* C21: once the live match of a request was terminated, no later step locks
\* that request or its counterpart with a request again, and no later card
\* names either of them.
C21_NoRematch ==
  [][\A x \in Ids :
       /\ Dissolved(x)
            => (~Truthy(reqs'[x].matchedWith) /\ \A c \in cards' : x \notin {c[1], c[2]})
       /\ LeftBehind(x)
            => ( /\ reqs'[x].matchedWith \in {reqs[x].matchedWith, Absent}
                 /\ \A c \in cards' : x \notin {c[1], c[2]} )]_vars

\* A moderator-only action issued by the actor: a moderation button or an
\* admin command.
ModeratorAction(actor) ==
  \/ \E kind \in {"approve", "reject", "visa"}, id \in Ids : AdminPress(actor, kind, id)
  \/ \E reasonFor \in Ids \cup {Null} : ReasonPress(actor, reasonFor)
  \/ \E inGroup \in BOOLEAN, command \in {"suspend", "unsuspend", "terminate"},
        user \in Users : AdminCommand(actor, inGroup, command, user)

C25_WeightTolerance ==
  Returned("isWeightCompatible") =>
    LET senderWeight == probe.arguments[1]
        travelerWeight == probe.arguments[2]
    IN probe.out <=> ( /\ senderWeight - travelerWeight <= 200
                       /\ travelerWeight - senderWeight <= 200 )

\* The calendar date after d.
NextDate(d) ==
  IF d[1] < DaysInMonth(d[2], d[3]) THEN <<d[1] + 1, d[2], d[3]>>
  ELSE IF d[2] < 12 THEN <<1, d[2] + 1, d[3]>>
  ELSE <<1, 1, d[3] + 1>>

DateOf(t) == <<t[1], t[2], t[3]>>

\* C26: for a ship date D and a departure on the calendar, areDatesClose is
\* true when the departure's date is D-1, D or D+1, whatever its time of
\* day, and false for every other date (D+2 or later, D-2 or earlier).
C26_DateTolerance ==
  (Returned("areDatesClose")
     /\ IsValidDate(probe.arguments[1]) /\ IsValidDateTime(probe.arguments[2])) =>
    LET D == probe.arguments[1]
        departure == DateOf(probe.arguments[2])
    IN probe.out <=> (departure = D \/ departure = NextDate(D) \/ D = NextDate(departure))

\* A departure at 23:59 on the day after the ship date was found close.
C26_Witness ==
  /\ Returned("areDatesClose") /\ probe.out
  /\ DateOf(probe.arguments[2]) = NextDate(probe.arguments[1])
  /\ probe.arguments[2][4] = 23
  /\ probe.arguments[1][2] = 12 /\ probe.arguments[1][1] = 31

\* The piece at position i is a whole word: no run of letters touches it.
WholeWordAt(name, i) ==
  /\ i = 1 \/ name[i - 1] \in NameBreaks
  /\ i = Len(name) \/ name[i + 1] \in NameBreaks

\* C27: the normalized name holds no whole-word INTERNATIONAL, INTL or
\* AIRPORT wherever it stood, normalizing it again changes nothing, and
\* airportsMatch(a, b) holds iff the two normalized names are identical.
C27_AirportNormalization ==
  /\ Returned("normalizeAirportName") =>
       /\ \A i \in 1..Len(probe.out) :
            ~(probe.out[i] \in RemovedWords /\ WholeWordAt(probe.out, i))
       /\ NormalizeAirportName(probe.out) = probe.out
  /\ Returned("airportsMatch") =>
       (probe.out <=>
          NormalizeAirportName(probe.arguments[1]) = NormalizeAirportName(probe.arguments[2]))

\* C24: on snapshots that carry a route and dates on the calendar,
\* isSenderTravelerCompatible is true exactly when the normalized pickup
\* equals the normalized departure, the normalized destinations are equal,
\* the weights differ by at most 2 kg, the ship date and the departure date
\* are at most one day apart and neither snapshot is matchLocked.
C24_Compatible ==
  LET s == probe.arguments[2]
      t == probe.arguments[3]
  IN ( /\ Returned("isSenderTravelerCompatible")
       /\ s.pickup # <<>> /\ s.sendDate # <<>>
       /\ t.departure # <<>> /\ t.departureTime # <<>> ) =>
       (probe.out <=>
          /\ NormalizeAirportName(s.pickup) = NormalizeAirportName(t.departure)
          /\ NormalizeAirportName(s.destination) = NormalizeAirportName(t.destination)
          /\ Abs(s.weight - t.availableWeight) <= 200
          /\ \/ DateOf(t.departureTime) = s.sendDate
             \/ DateOf(t.departureTime) = NextDate(s.sendDate)
             \/ s.sendDate = NextDate(DateOf(t.departureTime))
          /\ ~s.matchLocked /\ ~t.matchLocked)

\* A document with the fields the cards must never show set to fixed values.
HiddenBlank(doc) ==
  [doc EXCEPT !.data =
     [f \in DOMAIN doc.data |->
        IF f \in {"name", "phone", "email", "selfieId", "passportSelfie"}
        THEN "" ELSE doc.data[f]]]

\* C23: a match card carries, about the counterpart, only the request id,
\* route, dates, weight / capacity and category (no free text and no image
\* of the counterpart), and it is the card that counterparts differing only
\* in name, phone, email or document images produce.
C23_OfferPrivacy ==
  /\ Returned("sendMatchCardToSender") =>
       /\ \A card \in probe.out : card.about.notes = ""
       /\ probe.out = MatchCardToSender(probe.arguments[1], HiddenBlank(probe.arguments[2]))
  /\ Returned("sendMatchCardToTraveler") =>
       /\ \A card \in probe.out : card.about.notes = "" /\ card.photoOf # "sender"
       /\ probe.out = MatchCardToTraveler(probe.arguments[2], HiddenBlank(probe.arguments[1]))

\* C28: no two persisted records of one chat share a requestId: Confirm &
\* Submit persists exactly one record for its requestId, also when the
\* press is delivered again while the first handler has not finished.
C28_PersistedOnce ==
  \A i, j \in DOMAIN inserted :
    (i # j /\ inserted[i].userId = inserted[j].userId)
      => inserted[i].requestId # inserted[j].requestId

\* C29: no two persisted requests of different users share a requestId.
C29_UniqueRequestId ==
  \A i, j \in DOMAIN inserted :
    inserted[i].userId # inserted[j].userId
      => inserted[i].requestId # inserted[j].requestId

\* The text is a decimal number, with or without a minus sign, and its
\* value is positive.
IsDecimal(text) ==
  LET whole == DigitRun(text)
      rest == SubSeq(text, whole + 1, Len(text))
  IN /\ whole > 0
     /\ \/ rest = <<>>
        \/ /\ Len(rest) >= 2 /\ Head(rest) = "."
           /\ DigitRun(Tail(rest)) = Len(rest) - 1

IsPositiveDecimal(text) == IsDecimal(text) /\ \E i \in DOMAIN text : text[i] = "1"

\* C30: the weight step stores a weight only for a text that is a positive
\* number of at most 10 (a weight <= 0 or a non-number never advances the
\* step), the weight stored is that number, and a number above 10 drops the
\* session.
C30_WeightBound ==
  Returned("weight step") =>
    LET text == probe.arguments[1]
    IN /\ probe.out.outcome = "store" =>
            /\ IsPositiveDecimal(text)
            /\ probe.out.weight[1] > 0
            /\ probe.out.weight[1] <= MaxWeight * probe.out.weight[2]
       /\ (IsPositiveDecimal(text) /\ probe.out.outcome # "store") =>
            probe.out.outcome = "drop"

\* A date and time as minutes, for comparing two of them.
MinutesOf(t) == Moment(t, t[4], t[5])

\* C31: the dates a flow has stored when both date steps are passed are a
\* send date not before the day of entry and an arrival date not before
\* it (sender), a departure not before the moment of entry and an arrival
\* not before the departure (traveler).
C31_DateValidity ==
  /\ (Returned("sender dates") /\ probe.out.arrivalDate # <<>>) =>
       /\ Moment(probe.out.sendDate, 0, 0) >= StartOfDay(MinutesOf(probe.arguments[1]))
       /\ Moment(probe.out.arrivalDate, 0, 0) >= Moment(probe.out.sendDate, 0, 0)
  /\ (Returned("traveler dates") /\ probe.out.arrivalTime # <<>>) =>
       /\ MinutesOf(probe.out.departureTime) >= MinutesOf(probe.arguments[1])
       /\ MinutesOf(probe.out.arrivalTime) >= MinutesOf(probe.out.departureTime)


\* ------------------------------------------------------------------ C32
\* C32: while x.pendingMatchWith names y, no step makes it name another
\* request (a confirmation of z # y by x's owner writes nothing), it can only
\* stay or be cleared; and a confirmation handler of x for z # y that makes
\* its checks with x's document holding y ends there with the notice.
C32_SingleOutstanding ==
  [][\A x \in Ids :
       Truthy(reqs[x].pendingMatchWith)
         => reqs'[x].pendingMatchWith \in {reqs[x].pendingMatchWith, Null}]_vars

\* ------------------------------------------------------------------ C33
\* The status edges the moderation workflow is described by.
StatusEdge(role, from, to) ==
  \/ to = from
  \/ from = "Pending" /\ to \in {"Approved", "Rejected"}
  \/ /\ role = "traveler"
     /\ \/ from = "Pending" /\ to = "VisaRequested"
        \/ from = "VisaRequested" /\ to = "VisaUploaded"
        \/ from = "VisaUploaded" /\ to \in {"Approved", "Rejected"}

\* C33: the status of a stored request moves only along Pending -> Approved,
\* Pending -> Rejected and, for travelers, Pending -> VisaRequested ->
\* VisaUploaded -> Approved or Rejected; Approved and Rejected are never
\* left, and only travelers hold VisaRequested or VisaUploaded.
C33_StatusTransitions ==
  [][\A id \in Ids :
       reqs[id].exists
         => /\ StatusEdge(RoleOf(id), reqs[id].status, reqs'[id].status)
            /\ reqs'[id].status \in {"VisaRequested", "VisaUploaded"}
                 => RoleOf(id) = "traveler"]_vars

\* ------------------------------------------------------------------ the questions
\* The steps of the two flows in the order of their questions.
SenderOrder ==
  <<"sender_name", "sender_phone", "sender_email", "pickup_airport",
    "destination_airport", "package_weight", "package_category",
    "package_photo", "send_date", "arrival_date", "selfie_id",
    "optional_notes", "confirm_pending">>
TravelerOrder ==
  <<"traveler_name", "traveler_phone", "departure_airport",
    "departure_country", "destination_airport", "arrival_country",
    "departure_time", "arrival_time", "available_weight", "passport_number",
    "passport_selfie", "itinerary_photo", "optional_notes", "confirm_pending">>
OrderOf(type) == IF type = "sender" THEN SenderOrder ELSE TravelerOrder

\* The steps with a case in handleSenderTextStep / handleTravelerTextStep.
QuestionSteps ==
  {"sender_name", "sender_phone", "sender_email", "pickup_airport",
   "destination_airport", "package_weight", "send_date", "arrival_date",
   "optional_notes", "traveler_name", "traveler_phone", "departure_airport",
   "departure_country", "arrival_country", "departure_time", "arrival_time",
   "available_weight", "passport_number"}

\* Texts are sequences of characters.  What users type: the answer a
\* question asks for, or one of a few other texts.
NameText == <<"a", "a">>
PhoneText == <<"+", "1", "2", "3", "4", "5", "6", "7", "8">>
EmailText == <<"a", "@", "a", ".", "a">>
WeightText == <<"2", ".", "5">>
HeavyText == <<"1", "1">>
PastDateText == <<"2", "7", "-", "0", "2", "-", "2", "0", "2", "4">>
SendDateText == <<"2", "9", "-", "0", "3", "-", "2", "0", "2", "4">>
ArrivalDateText == <<"3", "0", "-", "0", "3", "-", "2", "0", "2", "4">>
DepartureTimeText == SendDateText \o <<" ", "1", "0", ":", "0", "0">>
ArrivalTimeText == ArrivalDateText \o <<" ", "1", "0", ":", "0", "0">>
PassportText == <<"a", "1", "2", "3", "4", "5", "6", "7">>
NoneText == <<"N", "o", "n", "e">>
Mistakes == {NameText, HeavyText, PastDateText}

AnswerTo(step) ==
  IF step \in {"sender_phone", "traveler_phone"} THEN PhoneText
  ELSE IF step = "sender_email" THEN EmailText
  ELSE IF step \in {"package_weight", "available_weight"} THEN WeightText
  ELSE IF step = "send_date" THEN SendDateText
  ELSE IF step = "arrival_date" THEN ArrivalDateText
  ELSE IF step = "departure_time" THEN DepartureTimeText
  ELSE IF step = "arrival_time" THEN ArrivalTimeText
  ELSE IF step = "passport_number" THEN PassportText
  ELSE IF step = "optional_notes" THEN NoneText
  ELSE NameText
Typed(step) == {AnswerTo(step)} \cup Mistakes

\* The day the questions are answered on.
FlowNow == <<28, 3, 2024, 12, 30>>

\* /^\+\d{8,15}$/
IsValidPhone(text) ==
  /\ Len(text) \in 9..16
  /\ text[1] = "+"
  /\ \A i \in 2..Len(text) : IsDigit(text[i])

\* /^[^\s@]+@[^\s@]+\.[^\s@]+$/
Plain(text, from, to) ==
  from <= to /\ \A i \in from..to : text[i] \notin {" ", "@"}
IsValidEmail(text) ==
  \E at, dot \in 1..Len(text) :
    /\ text[at] = "@" /\ text[dot] = "."
    /\ Plain(text, 1, at - 1) /\ Plain(text, at + 1, dot - 1)
    /\ Plain(text, dot + 1, Len(text))

\* /^[A-Za-z0-9]{7,9}$/ on the characters users type here.
IsValidPassport(text) ==
  /\ Len(text) \in 7..9
  /\ \A i \in 1..Len(text) : IsDigit(text[i]) \/ text[i] \in {"a", "N", "o", "n", "e"}

AllDigits(text, positions) == \A i \in positions : IsDigit(text[i])
Number(text, from, to) == DigitsValue(SubSeq(text, from, to))

\* parseDate_ddmmyyyy: the date of a text in the strict format, <<>> (null)
\* for any other text.
ParseDate_ddmmyyyy(text) ==
  IF /\ Len(text) = 10 /\ text[3] = "-" /\ text[6] = "-"
     /\ AllDigits(text, {1, 2, 4, 5, 7, 8, 9, 10})
     /\ IsValidDate(<<Number(text, 1, 2), Number(text, 4, 5), Number(text, 7, 10)>>)
  THEN <<Number(text, 1, 2), Number(text, 4, 5), Number(text, 7, 10)>>
  ELSE <<>>

\* parseDate_ddmmyyyy_hhmm
ParseDate_ddmmyyyy_hhmm(text) ==
  IF /\ Len(text) = 16 /\ text[11] = " " /\ text[14] = ":"
     /\ AllDigits(text, {12, 13, 15, 16})
     /\ ParseDate_ddmmyyyy(SubSeq(text, 1, 10)) # <<>>
     /\ Number(text, 12, 13) \in 0..23 /\ Number(text, 15, 16) \in 0..59
  THEN ParseDate_ddmmyyyy(SubSeq(text, 1, 10))
         \o <<Number(text, 12, 13), Number(text, 15, 16)>>
  ELSE <<>>

\* todayStart()
TodayStart == StartOfDay(Moment(FlowNow, FlowNow[4], FlowNow[5]))

\* text.toLowerCase() === 'none' on the characters users type here.
ToLowerCase(text) == [i \in DOMAIN text |-> IF text[i] = "N" THEN "n" ELSE text[i]]
IsNone(text) == ToLowerCase(text) = <<"n", "o", "n", "e">>

\* data[field] = value
Put(data, field, value) ==
  [f \in DOMAIN data \cup {field} |-> IF f = field THEN value ELSE data[f]]

\* The session startSenderFlow / startTravelerFlow makes.
NewSession(type) ==
  [type |-> type, step |-> OrderOf(type)[1], data |-> [f \in {} |-> <<>>],
   expectingPhoto |-> "none", waitingForNotes |-> FALSE, requestId |-> <<>>]

\* What a listener leaves: the chat's session and its message to the chat.
Outcome(sess, reply) == [sess |-> sess, reply |-> reply]
Store(sess, field, value, step, reply) ==
  Outcome([sess EXCEPT !.data = Put(@, field, value), !.step = step], reply)

\* case 'package_weight' / 'available_weight'
WeightQuestion(sess, text, field, step) ==
  LET res == WeightStep(text)
  IN IF res.outcome = "stay"
     THEN Outcome(sess, IF FromFirstDigit(text) = <<>> THEN "Invalid weight format."
                        ELSE "Enter a positive weight.")
     ELSE IF res.outcome = "drop" THEN Outcome(NoSession, "Weight > 10kg. Not allowed.")
     ELSE Store(sess, field, res.weight, step, "next question")

\* case 'optional_notes' of either flow
NotesQuestion(sess, text) ==
  IF sess.waitingForNotes THEN Outcome([sess EXCEPT !.waitingForNotes = FALSE], "none")
  ELSE IF text = <<>> THEN Outcome(sess, "Please type your notes or 'None' to continue.")
  ELSE Outcome([sess EXCEPT !.data = Put(@, "notes", IF IsNone(text) THEN <<>> ELSE text),
                            !.requestId = MakeRequestId(sess.type),
                            !.step = "confirm_pending"], "Summary")

\* handleSenderTextStep(chatId, text) on the chat's session.
HandleSenderTextStep(sess, text) ==
  IF sess.step = "sender_name"
  THEN IF Len(text) < 2 THEN Outcome(sess, "Enter a valid full name (min 2 chars).")
       ELSE Store(sess, "name", text, "sender_phone", "next question")
  ELSE IF sess.step = "sender_phone"
  THEN IF ~IsValidPhone(text) THEN Outcome(sess, "Invalid phone number.")
       ELSE Store(sess, "phone", text, "sender_email", "next question")
  ELSE IF sess.step = "sender_email"
  THEN IF ~IsValidEmail(text) THEN Outcome(sess, "Invalid email.")
       ELSE Store(sess, "email", text, "pickup_airport", "next question")
  ELSE IF sess.step = "pickup_airport"
  THEN IF text = <<>> THEN Outcome(sess, "Enter pickup airport name clearly as shown in example.")
       ELSE Store(sess, "pickup", text, "destination_airport", "next question")
  ELSE IF sess.step = "destination_airport"
  THEN Store(sess, "destination", text, "package_weight", "next question")
  ELSE IF sess.step = "package_weight"
  THEN WeightQuestion(sess, text, "weight", "package_category")
  ELSE IF sess.step = "send_date"
  THEN IF text = <<>> THEN Outcome(sess, "none")
       ELSE IF ParseDate_ddmmyyyy(text) = <<>>
       THEN Outcome(sess, "Please enter Send Date in DD-MM-YYYY format.")
       ELSE IF Moment(ParseDate_ddmmyyyy(text), 0, 0) < TodayStart
       THEN Outcome(sess, "Send Date cannot be in the past.")
       ELSE Store(sess, "sendDate", ParseDate_ddmmyyyy(text), "arrival_date", "next question")
  ELSE IF sess.step = "arrival_date"
  THEN IF ParseDate_ddmmyyyy(text) = <<>>
       THEN Outcome(sess, "Invalid Arrival Date format. Use DD-MM-YYYY.")
       ELSE IF Moment(ParseDate_ddmmyyyy(text), 0, 0) < TodayStart
       THEN Outcome(sess, "Arrival Date cannot be in the past.")
       ELSE IF /\ "sendDate" \in DOMAIN sess.data
               /\ Moment(ParseDate_ddmmyyyy(text), 0, 0) < Moment(sess.data["sendDate"], 0, 0)
       THEN Outcome(sess, "Arrival Date cannot be earlier than Send Date.")
       ELSE Store([sess EXCEPT !.expectingPhoto = "selfie_id"], "arrivalDate",
                  ParseDate_ddmmyyyy(text), "selfie_id", "next question")
  ELSE IF sess.step = "optional_notes" THEN NotesQuestion(sess, text)
  ELSE Outcome(sess, "none")

\* handleTravelerTextStep(chatId, text) on the chat's session.
HandleTravelerTextStep(sess, text) ==
  IF sess.step = "traveler_name"
  THEN IF Len(text) < 2 THEN Outcome(sess, "Enter valid full name.")
       ELSE Store(sess, "name", text, "traveler_phone", "next question")
  ELSE IF sess.step = "traveler_phone"
  THEN IF ~IsValidPhone(text) THEN Outcome(sess, "Invalid phone format.")
       ELSE Store(sess, "phone", text, "departure_airport", "next question")
  ELSE IF sess.step = "departure_airport"
  THEN Store(sess, "departure", text, "departure_country", "next question")
  ELSE IF sess.step = "departure_country"
  THEN Store(sess, "departureCountry", text, "destination_airport", "next question")
  ELSE IF sess.step = "destination_airport"
  THEN Store(sess, "destination", text, "arrival_country", "next question")
  ELSE IF sess.step = "arrival_country"
  THEN Store(sess, "arrivalCountry", text, "departure_time", "next question")
  ELSE IF sess.step = "departure_time"
  THEN IF ParseDate_ddmmyyyy_hhmm(text) = <<>>
       THEN Outcome(sess, "Invalid format. Use DD-MM-YYYY HH:mm")
       ELSE Store(sess, "departureTime", ParseDate_ddmmyyyy_hhmm(text), "arrival_time",
                  "next question")
  ELSE IF sess.step = "arrival_time"
  THEN IF ParseDate_ddmmyyyy_hhmm(text) = <<>>
       THEN Outcome(sess, "Invalid format. Use DD-MM-YYYY HH:mm")
       ELSE Store(sess, "arrivalTime", ParseDate_ddmmyyyy_hhmm(text), "available_weight",
                  "next question")
  ELSE IF sess.step = "available_weight"
  THEN WeightQuestion(sess, text, "availableWeight", "passport_number")
  ELSE IF sess.step = "passport_number"
  THEN IF ~IsValidPassport(text) THEN Outcome(sess, "Invalid passport format.")
       ELSE Store([sess EXCEPT !.expectingPhoto = "passport_selfie"], "passportNumber",
                  text, "passport_selfie", "next question")
  ELSE IF sess.step = "optional_notes" THEN NotesQuestion(sess, text)
  ELSE Outcome(sess, "none")

\* The 'message' listener past its gates, for a chat that is not suspended
\* and a text that is not a command: the text step of the session's flow.
\* Without a session the text goes to tryForwardChatMessage.
MessageListener(sess, text) ==
  IF sess.type = "sender" THEN HandleSenderTextStep(sess, text)
  ELSE IF sess.type = "traveler" THEN HandleTravelerTextStep(sess, text)
  ELSE Outcome(sess, "none")

\* The 'photo' listener up to its first await: the photo a flow expects is
\* stored and the flow moves on; any other photo is looked up as a visa
\* upload (no reply unless the chat has a VisaRequested request).
PhotoListener(sess) ==
  IF sess.type = "sender" /\ sess.expectingPhoto = "package_photo"
  THEN Store([sess EXCEPT !.expectingPhoto = "none"], "packagePhoto", <<"file">>,
             "send_date", "next question")
  ELSE IF sess.type = "sender" /\ sess.expectingPhoto = "selfie_id"
  THEN Store([sess EXCEPT !.expectingPhoto = "none", !.waitingForNotes = TRUE],
             "selfieId", <<"file">>, "optional_notes", "next question")
  ELSE IF sess.type = "traveler" /\ sess.expectingPhoto = "passport_selfie"
  THEN Store([sess EXCEPT !.expectingPhoto = "itinerary_photo"], "passportSelfie",
             <<"file">>, "itinerary_photo", "next question")
  ELSE IF sess.type = "traveler" /\ sess.expectingPhoto = "itinerary_photo"
  THEN Store([sess EXCEPT !.expectingPhoto = "none", !.waitingForNotes = TRUE],
             "itineraryPhoto", <<"file">>, "optional_notes", "next question")
  ELSE Outcome(sess, "none")

\* ------------------------------------------------------------------ the flows, question by question
\* At most MaxSessions chats are in a flow at a time, and flows are started
\* until MaxSubmissions records have been persisted.
MaxSessions == 1
MaxSubmissions == 1
OpenSessions == {u \in Users : sessions[u].type # "none"}
MayStart(user) ==
  /\ Len(inserted) < MaxSubmissions
  /\ user \in OpenSessions \/ Cardinality(OpenSessions) < MaxSessions

\* The main-menu buttons: startSenderFlow / startTravelerFlow.
StartSenderFlow(user) ==
  MayStart(user) /\ SessionStep(user, NewSession("sender"), "Enter your Full Name:")
StartTravelerFlow(user) ==
  MayStart(user) /\ SessionStep(user, NewSession("traveler"), "Enter your Full Name:")

\* A text typed in a chat that is in a flow.
TextEvent(user, text) ==
  /\ user \in OpenSessions
  /\ text \in Typed(sessions[user].step)
  /\ LET out == MessageListener(sessions[user], text)
     IN SessionStep(user, out.sess, out.reply)

\* A photo sent in a chat that is in a flow.  The library emits 'message'
\* and then 'photo' for it; the message listener first awaits the store, so
\* the photo listener's changes to the session come first and the message
\* listener then runs the text step with the empty text of a photo.
PhotoEvent(user) ==
  /\ user \in OpenSessions
  /\ LET photo == PhotoListener(sessions[user])
         message == MessageListener(photo.sess, <<>>)
     IN SessionStep(user, message.sess,
                    IF photo.reply # "none" THEN photo.reply ELSE message.reply)

\* A cat_ button of the category keyboard.
CategoryEvent(user, category) ==
  IF sessions[user].type # "sender" \/ sessions[user].step # "package_category"
  THEN Denied("Category not expected now. Please follow the flow.")
  ELSE IF category = "Prohibited"
  THEN SessionStep(user, sessions[user], "Choose a valid category:")
  ELSE LET out == Store([sessions[user] EXCEPT !.expectingPhoto = "package_photo"],
                        "category", category, "package_photo", "next question")
       IN SessionStep(user, out.sess, out.reply)

\* A confirm_yes / confirm_no button of a summary, with the request id the
\* summary was made with: the session must hold that id.  Yes runs
\* handleFinalSenderSubmit / handleFinalTravelerSubmit: insertOne, the
\* messages, userSessions[chatId] = null.
SummaryEvent(user, decision, requestId) ==
  IF sessions[user].type = "none" \/ sessions[user].requestId # requestId
  THEN Denied("Session mismatch or expired.")
  ELSE IF decision = "no"
  THEN SessionStep(user, NoSession, "Submission cancelled.")
  ELSE /\ inserted' = Append(inserted,
                             [requestId |-> requestId, userId |-> user,
                              role |-> sessions[user].type, step |-> sessions[user].step,
                              data |-> sessions[user].data])
       /\ sessions' = [sessions EXCEPT ![user] = NoSession]
       /\ answer' = Say("submitted")
       /\ UNCHANGED <<reqs, inflight, finalized, confirmedBy, cards, staleFor,
                      received, adminAuth, recording, probe, clock>>

QuestionNext ==
  \/ \E user \in Users : StartSenderFlow(user)
  \/ \E user \in Users : StartTravelerFlow(user)
  \/ \E user \in Users, text \in Mistakes \cup {AnswerTo(s) : s \in QuestionSteps} :
       TextEvent(user, text)
  \/ \E user \in Users : PhotoEvent(user)
  \/ \E user \in Users, category \in {"Documents", "Prohibited"} :
       CategoryEvent(user, category)
  \/ \E user \in Users, decision \in {"yes", "no"}, role \in Roles :
       SummaryEvent(user, decision, MakeRequestId(role))

SpecQuestions == Init /\ [][QuestionNext]_vars

\* ------------------------------------------------------------------ C34
\* C34: a text typed while the session is at a photo step, and a photo sent
\* while the session is at a step that asks for a text, each leave the
\* session's step as it is and are answered with a message to the chat.
C34_WrongModality ==
  [][\A user \in Users :
       /\ \A text \in Typed(sessions[user].step) :
            (TextEvent(user, text) /\ sessions[user].step \in PhotoSteps)
              => (sessions'[user].step = sessions[user].step /\ answer' # "none")
       /\ (PhotoEvent(user) /\ sessions[user].step \in QuestionSteps)
            => (sessions'[user].step = sessions[user].step /\ answer' # "none")]_vars

\* ------------------------------------------------------------------ C35
\* The step after a step in its flow's order.
Successor(type, step) ==
  LET order == OrderOf(type)
      i == CHOOSE k \in DOMAIN order : order[k] = step
  IN IF i < Len(order) THEN order[i + 1] ELSE step

\* The fields every persisted record of a role must carry.
MandatoryFields(role) ==
  IF role = "sender"
  THEN {"name", "phone", "email", "pickup", "destination", "weight", "category",
        "packagePhoto", "sendDate", "arrivalDate", "selfieId"}
  ELSE {"name", "phone", "departure", "departureCountry", "destination",
        "arrivalCountry", "departureTime", "arrivalTime", "availableWeight",
        "passportNumber", "passportSelfie", "itineraryPhoto"}

\* The messages that refuse an input.
Refusals ==
  {"Enter a valid full name (min 2 chars).", "Enter valid full name.",
   "Invalid phone number.", "Invalid phone format.", "Invalid email.",
   "Enter pickup airport name clearly as shown in example.",
   "Invalid weight format.", "Enter a positive weight.", "Weight > 10kg. Not allowed.",
   "Please enter Send Date in DD-MM-YYYY format.", "Send Date cannot be in the past.",
   "Invalid Arrival Date format. Use DD-MM-YYYY.", "Arrival Date cannot be in the past.",
   "Arrival Date cannot be earlier than Send Date.",
   "Invalid format. Use DD-MM-YYYY HH:mm", "Invalid passport format.",
   "Please type your notes or 'None' to continue.", "Choose a valid category:",
   "Category not expected now. Please follow the flow."}

\* The step of a session changes, the session not being replaced by a new one.
Moved(user) ==
  /\ sessions[user].type # "none" /\ sessions'[user].type = sessions[user].type
  /\ sessions'[user].step # sessions[user].step
  /\ ~StartSenderFlow(user) /\ ~StartTravelerFlow(user)

\* C35: a session's step changes only to the next step of its flow's order,
\* on a text at a step that asks for a text, a photo at a photo step or a
\* category button at package_category; an input that is refused leaves the
\* session (step and data) as it is; and every persisted record was
\* submitted from confirm_pending with all its mandatory fields filled.
C35_LinearFlow ==
  [][/\ \A user \in Users :
          /\ Moved(user)
               => sessions'[user].step = Successor(sessions[user].type, sessions[user].step)
          /\ (PhotoEvent(user) /\ Moved(user)) => sessions[user].step \in PhotoSteps
          /\ \A text \in Typed(sessions[user].step) :
               (TextEvent(user, text) /\ Moved(user)) => sessions[user].step \in QuestionSteps
          /\ answer' \in Refusals => sessions'[user] = sessions[user]
     /\ \A i \in DOMAIN inserted' :
          /\ inserted'[i].step = "confirm_pending"
          /\ \A f \in MandatoryFields(inserted'[i].role) :
               /\ f \in DOMAIN inserted'[i].data
               /\ f # "category" => inserted'[i].data[f] # <<>>]_vars

\* ------------------------------------------------------------------ C36
\* A text that is not a command, written in the admin group by an account
\* that is not being asked for the PIN: the message listener finds no
\* session for the group chat and hands the text to tryForwardChatMessage,
\* which finds no match for the group chat.  Nothing reads
\* awaitingCustomReasonFor.
AdminText(actor) ==
  /\ adminAuth[actor].login # "awaitingPin"
  /\ Denied("none")

ReasonNext ==
  \/ AdminNext
  \/ \E actor \in Actors : AdminText(actor)

SpecReason == Init /\ [][ReasonNext]_vars

\* C36: when a logged-in moderator who pressed 'Other (type reason)' for a
\* request that is neither Approved nor Rejected writes a text in the admin
\* group, the request becomes Rejected and the moderator's
\* awaitingCustomReasonFor is cleared.
C36_CustomReasonRejects ==
  [][\A actor \in Actors, id \in Ids :
       ( /\ AdminText(actor)
         /\ adminAuth[actor].login = "loggedIn"
         /\ adminAuth[actor].reasonFor = id
         /\ reqs[id].exists /\ reqs[id].status \notin {"Approved", "Rejected"} )
         => ( /\ reqs'[id].status = "Rejected"
              /\ adminAuth'[actor].reasonFor = Null )]_vars

\* ------------------------------------------------------------------ the private chat
\* findActiveMatchForUser: a matching document of either collection.
ActiveOf(user) == ActiveIn("sender", user) \cup ActiveIn("traveler", user)

\* A text that is not a command from a chat without a session:
\* tryForwardChatMessage up to its findOne of the counterpart.  my/other hold
\* the document found and its matchedWith.
RelayStart(user) ==
  /\ CanSpawn
  /\ sessions[user].type = "none"
  /\ \/ /\ ActiveOf(user) = {}
        /\ inflight' = inflight
     \/ \E a \in ActiveOf(user) :
          inflight' = IF reqs[a].deliveryCompleted \/ ~Truthy(reqs[a].matchedWith)
                      THEN inflight
                      ELSE Spawn(Handler("relay", "findOther", a, reqs[a].matchedWith,
                                         user, NoSeen))
  /\ answer' = "none"
  /\ UNCHANGED <<reqs, finalized, confirmedBy>>
  /\ NoCards
  /\ Track

\* otherCol.findOne({ requestId: myDoc.matchedWith, matchLocked: true })
RelayFound(h) ==
  LET otherDoc == FindOne(OtherRole(RoleOf(h.my)), h.other)
  IN otherDoc.exists /\ otherDoc.matchLocked

\* The findOne of the counterpart and, when it is found, the message to
\* otherDoc.userId with its copy to the admin group.
RelaySend(h) ==
  /\ h \in Of("relay")
  /\ inflight' = Finish(h)
  /\ answer' = Say(IF RelayFound(h) THEN "Message from your match" ELSE "none")
  /\ UNCHANGED <<reqs, finalized, confirmedBy>>
  /\ NoCards
  /\ Track

\* /delivered: findActiveMatchForUser and the two early answers; otherwise
\* the handler goes on to mark its own document.
DeliveredStart(user) ==
  /\ CanSpawn
  /\ \/ /\ ActiveOf(user) = {}
        /\ inflight' = inflight
        /\ answer' = Say("You don't have any current shipment in process.")
     \/ \E a \in ActiveOf(user) :
          IF reqs[a].deliveryCompleted
          THEN /\ inflight' = inflight
               /\ answer' = Say("You don't have any current shipment in process.")
          ELSE /\ inflight' = Spawn(Handler("delivered", "markMy", a, reqs[a].matchedWith,
                                            user, NoSeen))
               /\ answer' = "none"
  /\ UNCHANGED <<reqs, finalized, confirmedBy>>
  /\ NoCards
  /\ Track

\* updateOne({ requestId: myDoc.requestId }, { $set: { deliveryCompleted: true } })
DeliveredMarkMy(h) ==
  /\ h \in Of("delivered") /\ h.pc = "markMy"
  /\ reqs' = [reqs EXCEPT ![h.my].deliveryCompleted = TRUE]
  /\ inflight' = Move(h, [h EXCEPT !.pc = "markOther"])
  /\ answer' = "none"
  /\ UNCHANGED <<finalized, confirmedBy>>
  /\ NoCards
  /\ Track

\* otherCol.findOne({ requestId: myDoc.matchedWith }) and the updateOne of
\* the document found (documents are never deleted, so the two are one
\* step), then the messages.
DeliveredMarkOther(h) ==
  /\ h \in Of("delivered") /\ h.pc = "markOther"
  /\ reqs' = IF FindOne(OtherRole(RoleOf(h.my)), h.other).exists
             THEN [reqs EXCEPT ![h.other].deliveryCompleted = TRUE]
             ELSE reqs
  /\ inflight' = Finish(h)
  /\ answer' = Say("Delivery marked as completed.")
  /\ UNCHANGED <<finalized, confirmedBy>>
  /\ NoCards
  /\ Track

\* Submission, approve / reject, confirmation, /terminate, /delivered and
\* the private chat.
RelayNext ==
  \/ \E role \in Roles, user \in Users : Submit(role, user, MaxRequests)
  \/ ConfirmNext
  \/ DecideNext
  \/ \E user \in Users : TerminateStart(user)
  \/ \E h \in Running : TerminateSenders(h)
  \/ \E h \in Running : TerminateTravelers(h)
  \/ \E user \in Users : DeliveredStart(user)
  \/ \E h \in Running : DeliveredMarkMy(h)
  \/ \E h \in Running : DeliveredMarkOther(h)
  \/ \E user \in Users : RelayStart(user)
  \/ \E h \in Running : RelaySend(h)

SpecRelay == Quiet /\ [][RelayNext]_vars

\* ------------------------------------------------------------------ C37
\* User u owns a request and user v owns a request that are locked with each
\* other, neither marked as delivered.
LiveMatch(u, v) ==
  \E a, b \in Ids :
    /\ reqs[a].exists /\ reqs[a].userId = u
    /\ reqs[b].exists /\ reqs[b].userId = v
    /\ LockedTogether(a, b)
    /\ ~reqs[a].deliveryCompleted /\ ~reqs[b].deliveryCompleted

\* C37: tryForwardChatMessage delivers a text of user u to user v only if at
\* that time u owns a request and v owns a request that are matchLocked and
\* matchedWith each other (which /terminate ends) and not delivered.
C37_RelayOnlyLiveMatch ==
  [][\A h \in Running :
       (RelaySend(h) /\ RelayFound(h)) => LiveMatch(h.actor, reqs[h.other].userId)]_vars

\* ------------------------------------------------------------------ C38
\* A request that holds pendingMatchWith, the counterpart it names and a
\* candidate it is shown, as documents of the store.  The counterpart named
\* may be locked with a request of the first one's role beyond the ones of
\* the model.
Elsewhere == NumSenders + NumTravelers + 1
PendingDocs ==
  {[NoDoc EXCEPT !.exists = TRUE, !.userId = u, !.status = st, !.matchLocked = l,
                 !.pendingMatchWith = p] :
     u \in Users, st \in {"Approved", "Pending"}, l \in BOOLEAN, p \in Ids \cup {Null}}
NamedDocs ==
  {[NoDoc EXCEPT !.exists = TRUE, !.userId = 1, !.status = "Approved",
                 !.matchLocked = l, !.matchedWith = m] :
     l \in BOOLEAN, m \in Ids \cup {Null, Elsewhere}}

\* The checks a request x meets on the way to a match with z: the filter of
\* the scans that build offers, and the checks of its owner's confirmation.
InitStranded ==
  /\ InitStore("steps")
  /\ \E x \in Ids, xDoc \in PendingDocs, yDoc \in NamedDocs, zDoc \in PendingDocs :
       \E z \in ColIds(OtherRole(RoleOf(x))) :
         probe = Call("stale pending", [x |-> x, z |-> z, xDoc |-> xDoc, yDoc |-> yDoc,
                                        zDoc |-> zDoc])

CallStranded ==
  LET a == probe.arguments
  IN Return("stale pending",
            [offered |-> IsCandidate(a.xDoc),
             confirm |-> ConfirmCheck(a.xDoc, a.zDoc, a.x, a.z, a.xDoc.userId)])

SpecStranded == InitStranded /\ [][CallStranded]_vars

\* The case of the claim: x is Approved, unlocked and holds pendingMatchWith
\* = y; y is locked with a request other than x; z is another request of
\* y's role, Approved, unlocked and free or waiting for x.
StalePending(a) ==
  /\ a.xDoc.status = "Approved" /\ ~a.xDoc.matchLocked
  /\ Truthy(a.xDoc.pendingMatchWith)
  /\ a.xDoc.pendingMatchWith \in ColIds(OtherRole(RoleOf(a.x))) \ {a.z}
  /\ a.yDoc.matchLocked
  /\ a.yDoc.matchedWith \in (ColIds(RoleOf(a.x)) \cup {Elsewhere}) \ {a.x}
  /\ a.zDoc.status = "Approved" /\ ~a.zDoc.matchLocked
  /\ a.zDoc.pendingMatchWith \in {Null, a.x}

\* C38: a request x whose pendingMatchWith names a request that has locked
\* with another one is still offered as a candidate by the scans, and its
\* owner's confirmation of another eligible candidate z is accepted (as the
\* first confirmation, or as the one that locks x with z).
C38_StaleNotStranded ==
  (Returned("stale pending") /\ StalePending(probe.arguments))
    => (probe.out.offered /\ probe.out.confirm \in {"first", "lock"})

\* ------------------------------------------------------------------ failing calls
\* Confirm & Submit with a session that holds the button's request id, and
\* insertOne throws: the catch answers with the internal-error message.
\* Nothing is persisted and the session stays.
SubmitInsertFails(user, requestId) ==
  /\ sessions[user].type # "none"
  /\ sessions[user].requestId = requestId
  /\ Denied("Internal error submitting request. Please try again later.")

\* A call after insertOne throws (the backup, or a message to the chat or to
\* the admin group): the catch answers with the internal-error message; the
\* line userSessions[chatId] = null is not reached.
SubmitNotifyFails(h) ==
  /\ h.kind = "submit"
  /\ inflight' = Finish(h)
  /\ answer' = Say("Internal error submitting request. Please try again later.")
  /\ UNCHANGED <<reqs, finalized, confirmedBy>>
  /\ NoCards
  /\ Track

\* The flow up to Confirm & Submit within one second of the clock, with
\* calls that fail.
FailureNext ==
  \/ \E user \in Users, role \in Roles : AskWeight(user, role)
  \/ \E user \in Users, text \in TextsUpTo(ShortTextLen) : WeightMessage(user, text)
  \/ \E user \in Users : NotesMessage(user)
  \/ \E user \in Users, decision \in {"yes", "no"}, requestId \in RequestIds :
       SummaryPress(user, decision, requestId)
  \/ \E h \in Running : SubmitFinish(h)
  \/ \E user \in Users, requestId \in RequestIds : SubmitInsertFails(user, requestId)
  \/ \E h \in Running : SubmitNotifyFails(h)

SpecFailure == Init /\ [][FailureNext]_vars

\* ------------------------------------------------------------------ C39
Persisted(user, requestId) ==
  {i \in DOMAIN inserted : inserted[i].userId = user /\ inserted[i].requestId = requestId}

\* C39: when handleFinalSenderSubmit / handleFinalTravelerSubmit answers
\* with the internal-error message, whichever of its calls failed, the
\* store holds no record of that chat with that request id.
C39_FailedSubmissionLeavesNoRecord ==
  [][/\ \A user \in Users, requestId \in RequestIds :
          (SubmitInsertFails(user, requestId) /\ Persisted(user, requestId) = {})
            => Persisted(user, requestId)' = {}
     /\ \A h \in Running :
          SubmitNotifyFails(h) => Persisted(h.actor, h.myDoc.requestId)' = {}]_vars

====
